---- MODULE Spec2Model ----
(***************************************************************************)
(* A model of the skies weather app: the frame loader                      *)
(* (src/src/utils/frameLoader.js), the weather-type helpers                *)
(* (src/src/utils/weatherTypes.js), the frame-sequence effects of          *)
(* WeatherScene (src/src/components/WeatherScene.jsx) and the App          *)
(* (src/unnamed/part_000): its render derivations, its weather load and    *)
(* its gesture controller.                                                 *)
(*                                                                         *)
(* JavaScript strings are TLA+ strings, built with \o as the template      *)
(* literals build them.  JavaScript null is the string NULL where a string *)
(* is expected and the record NullFormat where a format object is.  A Map  *)
(* is a function whose DOMAIN is the set of keys it has.  A progress value *)
(* p in [0,1] is the numerator of p over ProgressDen.                      *)
(***************************************************************************)
EXTENDS Integers, Sequences, FiniteSets, TLC

VARIABLES
    \* ---- App (src/unnamed/part_000)
    weatherDays,          \* useState([]): the WMO weather code of each forecast day
    loading,              \* useState(true)
    error,                \* useState(null)
    activeDay,            \* useState(0)
    activeDayRef,         \* useRef(0)
    scrollProgress,       \* useState(0), numerator over ProgressDen
    progressRef,          \* useRef(0), numerator over ProgressDen
    animRef,              \* useRef(null): the requestAnimationFrame handle, 0 for null
    animStartRef,         \* useRef(null): the timestamp of the run's first frame, 0 for null
    animFromRef,          \* useRef(0), numerator over ProgressDen
    animTargetRef,        \* useRef(0): 0 or 1
    isAnimatingRef,       \* useRef(false)
    runDay,               \* the activeDayRef the last forward run was triggered on
    touchStartYRef,       \* useRef(null): clientY of the touch start, NULL for null
    wheelAccum,           \* let wheelAccum of the input-wiring effect
    wheelTimer,           \* let wheelTimer: TRUE while its timeout is pending
    event,                \* the last App event and the App state it found
    \* ---- WeatherScene (src/src/components/WeatherScene.jsx)
    hasTransitionFrames,  \* useState(null): "null" | "true" | "false"
    frameSrc,             \* frameImgRef.current.src ("" until first set)
    videoReady,           \* useState(false)
    currentVideo,         \* currentVideoRef.current: its src, its load state and
                          \* whether the once-listeners onCanPlay, onError are attached
    nextVideoSrc,         \* nextVideoRef.current.src ("" until first set)
    readyFrames,          \* the scheduled callbacks of line 50: outer ones, which
                          \* schedule an inner one, and inner ones
    videoFailed,          \* an error event of the current asset came after its
                          \* load started and after its last canplay
    \* ---- the canvas WeatherScene (src/unnamed/part_004, from line 156)
    hasFrames,            \* useState(null): "null" | "true" | "false"
    idleFrame,            \* useState(1)
    frameNum,             \* let frameNum of the idle-loop effect
    canvasSrc,            \* the src of the last Image made by drawFrame ("" if none)
    \* ---- the location and its fetches (src/unnamed/part_000 26, 69-89)
    location,             \* useState(DEFAULT_LOCATION): the place its lat and lon denote
    fetches,              \* the activations of load(), in start order, where
                          \* several can be in flight
    \* ---- frameLoader (src/src/utils/frameLoader.js)
    folderFormats,        \* Map<folderName, formatObject | null>
    folderFrameCounts,    \* Map<folderName, count>
    frameCache,           \* Map<url, HTMLImageElement>: the set of its keys
    calls,                \* the activations of the async functions, in start order
    \* ---- environment
    server,               \* the static files under /frames: folder -> layout
    rafPending,           \* the handles of the scheduled animation-frame callbacks
    now,                  \* the timestamp of the last animation frame, in ticks since
                          \* the last run completed
    \* ---- arguments and results of the pure functions under test
    fromType, toType, keyOut, prevFromType, prevToType, prevKeyOut,
    mapOut, prevMapOut    \* [progress, total, frame] of the last two frame mappings

animVars   == <<animRef, animStartRef, animFromRef, animTargetRef, isAnimatingRef,
                rafPending, now, runDay>>
inputVars  == <<touchStartYRef, wheelAccum, wheelTimer>>
appVars    == <<weatherDays, loading, error, activeDay, activeDayRef,
                scrollProgress, progressRef, animVars, inputVars, event>>
sceneVars  == <<hasTransitionFrames, frameSrc>>
videoVars  == <<videoReady, currentVideo, nextVideoSrc, readyFrames, videoFailed>>
canvasVars == <<hasFrames, idleFrame, frameNum, canvasSrc>>
fetchVars  == <<location, fetches>>
loaderVars == <<folderFormats, folderFrameCounts, frameCache, calls>>
keyVars    == <<fromType, toType, keyOut, prevFromType, prevToType, prevKeyOut>>
mapVars    == <<mapOut, prevMapOut>>
vars == <<appVars, sceneVars, videoVars, canvasVars, fetchVars, loaderVars, server,
          keyVars, mapVars>>

--------------------------------------------------------------------------
\* Values

NULL == "<null>"

WEATHER_TYPES == {"sunny", "cloudy", "rainy", "snowy", "windy", "foggy"}

getWeatherType(code) ==
    IF code = 0 THEN "sunny"
    ELSE IF code <= 2 THEN "cloudy"
    ELSE IF code = 3 THEN "cloudy"
    ELSE IF code <= 49 THEN "foggy"
    ELSE IF code <= 67 THEN "rainy"
    ELSE IF code <= 77 THEN "snowy"
    ELSE IF code <= 82 THEN "rainy"
    ELSE IF code <= 86 THEN "snowy"
    ELSE IF code <= 99 THEN "rainy"
    ELSE "cloudy"

\* A getTransitionKey that forgets the direction of the pair.
getTransitionKeyUnordered(a, b) ==
    IF a = b THEN NULL
    ELSE IF a \in {"sunny", "cloudy", "rainy"} /\ b \notin {"sunny", "cloudy", "rainy"}
         THEN b \o "_to_" \o a
         ELSE a \o "_to_" \o b

\* A getTransitionKey without the equal-types test.
getTransitionKeyNoNull(a, b) == a \o "_to_" \o b

getTransitionKey(a, b) ==
    IF a = b THEN NULL ELSE a \o "_to_" \o b

--------------------------------------------------------------------------
\* Bounds of the model

AnimTicks == 2          \* clock ticks in TRANSITION_DURATION: a run is at t = k/AnimTicks
MaxCode == 99           \* the WMO weather codes drawn for a forecast: 0..MaxCode
MaxRange == 3           \* the frames a direct preloadFrameRange call may span: 1..MaxRange
\* progress values are 0/ProgressDen .. ProgressDen/ProgressDen; the eased
\* value of every t = k/AnimTicks is a whole number of these units
ProgressDen == 2 * AnimTicks * AnimTicks * AnimTicks
MaxTotal == 8          \* the small frame counts drawn for the frame mapping
MaxChecks == 2          \* runs of the scene's frame check that probe or spawn
MaxSearches == 2        \* count searches in flight, with the two a day selection may start
MaxFormatsPresent == 2  \* naming formats one served folder may mix
MaxApiCalls == 2        \* direct calls of getFolderFrameCount, one after the other
MaxServed == 1999       \* the frame counts drawn for the count search: 1..MaxServed

--------------------------------------------------------------------------
\* frameLoader.js: constants and URL building

FRAMES_BASE_PATH == "/frames"
DEFAULT_FRAME_COUNT == 1000
SEARCH_HI == 2000
chunkSize == 50

FORMAT_CANDIDATES == <<
    [prefix |-> "frame_",       pad |-> 4, ext |-> ".jpg"],
    [prefix |-> "ezgif-frame-", pad |-> 3, ext |-> ".jpg"],
    [prefix |-> "ezgif-frame-", pad |-> 4, ext |-> ".jpg"],
    [prefix |-> "frame-",       pad |-> 3, ext |-> ".jpg"],
    [prefix |-> "frame-",       pad |-> 4, ext |-> ".jpg"],
    [prefix |-> "",             pad |-> 4, ext |-> ".jpg"],
    [prefix |-> "",             pad |-> 3, ext |-> ".jpg"],
    [prefix |-> "frame_",       pad |-> 4, ext |-> ".png"],
    [prefix |-> "ezgif-frame-", pad |-> 3, ext |-> ".png"] >>

NullFormat == [prefix |-> NULL, pad |-> 0, ext |-> NULL]

Min(a, b) == IF a <= b THEN a ELSE b
Max(a, b) == IF a >= b THEN a ELSE b

Digit(d) ==
    CASE d = 0 -> "0" [] d = 1 -> "1" [] d = 2 -> "2" [] d = 3 -> "3" [] d = 4 -> "4"
      [] d = 5 -> "5" [] d = 6 -> "6" [] d = 7 -> "7" [] d = 8 -> "8" [] d = 9 -> "9"

\* String(index) for a non-negative integer
RECURSIVE String(_)
String(n) == IF n < 10 THEN Digit(n) ELSE String(n \div 10) \o Digit(n % 10)

\* s.padStart(w, "0")
RECURSIVE padStart(_, _)
padStart(s, w) == IF Len(s) >= w THEN s ELSE padStart("0" \o s, w)

buildUrl(folderName, index, fmt) ==
    FRAMES_BASE_PATH \o "/" \o folderName \o "/" \o fmt.prefix
        \o padStart(String(index), fmt.pad) \o fmt.ext

\* The static files: server[folder] = [formats, count] serves frames 1..count
\* under each naming format in formats (indices into FORMAT_CANDIDATES).
\* A file name determines its frame index, so only that index is compared.
FileExists(folderName, index, url) ==
    /\ folderName \in DOMAIN server
    /\ index \in 1..server[folderName].count
    /\ \E k \in server[folderName].formats :
          buildUrl(folderName, index, FORMAT_CANDIDATES[k]) = url

\* probeUrl(url): the image loads iff the file is served
probeUrl(folderName, index, url) == FileExists(folderName, index, url)

\* !!fmt for fmt = formats.get(folderName)
HasFormat(formats, folderName) ==
    folderName \in DOMAIN formats /\ formats[folderName] # NullFormat

\* getFrameUrl against the format map formats
FrameUrlIn(formats, folderName, index) ==
    IF HasFormat(formats, folderName)
        THEN buildUrl(folderName, index, formats[folderName])
        ELSE NULL

getFrameUrl(folderName, index) == FrameUrlIn(folderFormats, folderName, index)

--------------------------------------------------------------------------
\* frameLoader.js: progress -> frame index

\* Math.round(num / den) for num >= 0, den > 0: halves round up
MathRound(num, den) == (2 * num + den) \div (2 * den)

\* A mapper that forgets the lower clamp.
frameIndexNoClamp(progress, total) ==
    Min(total, MathRound(progress * total, ProgressDen))

\* A mapper that counts frames from the end.
frameIndexReversed(progress, total) ==
    Max(1, Min(total, MathRound((ProgressDen - progress) * total, ProgressDen)))

\* Math.max(1, Math.min(total, Math.round(progress * total)))
frameIndex(progress, total) ==
    Max(1, Min(total, MathRound(progress * total, ProgressDen)))

CachedTotal(counts, folderName) ==
    IF folderName \in DOMAIN counts THEN counts[folderName] ELSE DEFAULT_FRAME_COUNT

progressToFrameSync(progress, folderName) ==
    frameIndex(progress, CachedTotal(folderFrameCounts, folderName))

NoMapping == [progress |-> 0, total |-> 0, frame |-> 0]

--------------------------------------------------------------------------
\* Activations of the async functions.  An activation runs to its next await
\* within one step; pc names what it then waits for:
\*   "detect"  the probe of candidate cand                 (detectFormat)
\*   "count"   the probe of frame (lo + hi) div 2          (getFolderFrameCount)
\*   "load"    the image loads of the chunk at start        (preloadFrameRange)
\*   "yield"   the 8 ms timer after a chunk                 (preloadTransition)
\*   "done"    it has returned
\*   "loads"   the image loads of a direct preloadFrameRange call
\*   "rejected" its promise was rejected
\* issued (the URLs it probed, in order), searched (it ran a count search of
\* its own), requested (the frame indices it asked preloadFrameRange for),
\* chunks (the <<start, end>> of each preloadFrameRange call it made, in
\* order), loaded and failed (the URLs whose load succeeded and failed) and
\* after (the earlier checks of the same folder that had returned when it
\* started) record what the activation did; the code reads none of them.

MapSet(m, k, v) == [x \in DOMAIN m \cup {k} |-> IF x = k THEN v ELSE m[x]]

Call(op, folderName, progress) ==
    [op |-> op, folder |-> folderName, pc |-> "start", progress |-> progress,
     cand |-> 0, fmt |-> NullFormat, exists |-> FALSE, cancelled |-> FALSE,
     lo |-> 0, hi |-> 0, count |-> 0, searched |-> FALSE, total |-> 0, value |-> 0,
     start |-> 0, loads |-> {}, requested |-> {}, issued |-> <<>>, after |-> {},
     chunks |-> <<>>, loaded |-> {}, failed |-> {}]

\* A search that probes the lowest frame of the interval.
MidLowest(c) == c.lo

Mid(c) == (c.lo + c.hi) \div 2

\* preloadFrameRange(folderName, startFrame, endFrame): the loads it issues
preloadFrameRange(folderName, startFrame, endFrame, formats, cache) ==
    IF ~HasFormat(formats, folderName) THEN {}
    ELSE {buildUrl(folderName, i, formats[folderName]) : i \in startFrame..endFrame} \ cache

\* A preloadTransition whose chunks end one frame late.
PreloadChunkOverlapping(c, formats, cache) ==
    IF c.start > c.total THEN [c EXCEPT !.pc = "done", !.loads = {}]
    ELSE LET end   == Min(c.start + chunkSize, c.total)
             loads == preloadFrameRange(c.folder, c.start, end, formats, cache)
         IN  [c EXCEPT !.pc = IF loads = {} THEN "yield" ELSE "load",
                       !.loads = loads,
                       !.requested = @ \cup (c.start..end),
                       !.chunks = Append(@, <<c.start, end>>)]

\* preloadTransition: the loop head, for the chunk at c.start
PreloadChunk(c, formats, cache) ==
    IF c.start > c.total THEN [c EXCEPT !.pc = "done", !.loads = {}]
    ELSE LET end   == Min(c.start + chunkSize - 1, c.total)
             loads == preloadFrameRange(c.folder, c.start, end, formats, cache)
         IN  [c EXCEPT !.pc = IF loads = {} THEN "yield" ELSE "load",
                       !.loads = loads,
                       !.requested = @ \cup (c.start..end),
                       !.chunks = Append(@, <<c.start, end>>)]

\* A progressToFrame that does not clamp the index it rounds.
AfterCountNoClamp(c, total, formats, cache) ==
    CASE c.op = "getFolderFrameCount" ->
            [c EXCEPT !.pc = "done", !.total = total, !.value = total]
      [] c.op = "progressToFrame" ->
            [c EXCEPT !.pc = "done", !.total = total,
                      !.value = frameIndexNoClamp(c.progress, total)]
      [] c.op = "preloadTransition" ->
            PreloadChunk([c EXCEPT !.total = total, !.start = 1], formats, cache)

\* What the caller of getFolderFrameCount does with the count it awaited
AfterCount(c, total, formats, cache) ==
    CASE c.op = "getFolderFrameCount" ->
            [c EXCEPT !.pc = "done", !.total = total, !.value = total]
      [] c.op = "progressToFrame" ->
            [c EXCEPT !.pc = "done", !.total = total,
                      !.value = frameIndex(c.progress, total)]
      [] c.op = "preloadTransition" ->
            PreloadChunk([c EXCEPT !.total = total, !.start = 1], formats, cache)

\* A getFolderFrameCount that searches with the first candidate format when
\* the folder has none.
CountEntrySearchesUnresolved(c, formats, counts, cache) ==
    IF c.folder \in DOMAIN counts THEN AfterCount(c, counts[c.folder], formats, cache)
    ELSE LET fmt == IF HasFormat(formats, c.folder) THEN formats[c.folder]
                    ELSE FORMAT_CANDIDATES[1]
             c1  == [c EXCEPT !.pc = "count", !.fmt = fmt,
                              !.lo = 1, !.hi = SEARCH_HI,
                              !.count = DEFAULT_FRAME_COUNT, !.searched = TRUE]
         IN  [c1 EXCEPT !.issued = Append(@, buildUrl(c.folder, Mid(c1), c1.fmt))]

\* getFolderFrameCount up to its first await
CountEntry(c, formats, counts, cache) ==
    IF c.folder \in DOMAIN counts THEN AfterCount(c, counts[c.folder], formats, cache)
    ELSE IF ~HasFormat(formats, c.folder)
        THEN AfterCount(c, DEFAULT_FRAME_COUNT, formats, cache)
    ELSE LET c1 == [c EXCEPT !.pc = "count", !.fmt = formats[c.folder],
                             !.lo = 1, !.hi = SEARCH_HI,
                             !.count = DEFAULT_FRAME_COUNT, !.searched = TRUE]
         IN  [c1 EXCEPT !.issued = Append(@, buildUrl(c.folder, Mid(c1), c1.fmt))]

\* A search step that never records the frame it found.
CountStepKeepsDefault(c, exists) ==
    IF exists THEN [c EXCEPT !.lo = Mid(c) + 1]
              ELSE [c EXCEPT !.hi = Mid(c) - 1]

\* getFolderFrameCount after the probe of Mid(c) answered exists
CountStep(c, exists) ==
    IF exists THEN [c EXCEPT !.count = Mid(c), !.lo = Mid(c) + 1]
              ELSE [c EXCEPT !.hi = Mid(c) - 1]

\* A preloadTransition that starts loading with the default count instead of
\* awaiting getFolderFrameCount.
PreloadEntryNoAwait(c, formats, counts, cache) ==
    IF c.folder = NULL THEN [c EXCEPT !.pc = "done"]
    ELSE PreloadChunk([c EXCEPT !.total = DEFAULT_FRAME_COUNT, !.start = 1],
                      formats, cache)

\* preloadTransition(folderName) up to its first await
PreloadEntry(c, formats, counts, cache) ==
    IF c.folder = NULL THEN [c EXCEPT !.pc = "done"]
    ELSE CountEntry(c, formats, counts, cache)

\* A detectFormat that leaves the loop only after the last candidate.
DetectLoopEndsNoEarlyReturn(found, cand) == cand = Len(FORMAT_CANDIDATES)

\* detectFormat: the for loop ends at the first candidate found, or after the last
DetectLoopEnds(found, cand) == found \/ cand = Len(FORMAT_CANDIDATES)

\* A detectFormat that memoizes only the formats it found.
MemoizeFormatFoundOnly(formats, folderName, fmt) ==
    IF fmt = NullFormat THEN formats ELSE MapSet(formats, folderName, fmt)

\* folderFormats.set(folderName, fmt) and folderFormats.set(folderName, null)
MemoizeFormat(formats, folderName, fmt) == MapSet(formats, folderName, fmt)

\* A detectFormat that does not look the folder up before probing.
DetectEntryNoLookup(c, formats) ==
    [c EXCEPT !.pc = "detect", !.cand = 1,
              !.issued = Append(@, buildUrl(c.folder, 1, FORMAT_CANDIDATES[1]))]

\* detectFormat(folderName) up to its first await
DetectEntry(c, formats) ==
    IF c.folder \in DOMAIN formats
        THEN [c EXCEPT !.pc = "detected", !.fmt = formats[c.folder]]
        ELSE [c EXCEPT !.pc = "detect", !.cand = 1,
                       !.issued = Append(@, buildUrl(c.folder, 1, FORMAT_CANDIDATES[1]))]

--------------------------------------------------------------------------
\* App render derivations (days are numbered from 0, sequences from 1)

CurrentTypeOf(days, day) ==
    IF day \in 0..(Len(days) - 1) THEN getWeatherType(days[day + 1]) ELSE "sunny"

NextTypeOf(days, day) ==
    LET n == Min(day + 1, Len(days) - 1)
    IN  IF n \in 0..(Len(days) - 1) THEN getWeatherType(days[n + 1])
        ELSE CurrentTypeOf(days, day)

TransitionKeyOf(days, day) ==
    getTransitionKey(CurrentTypeOf(days, day), NextTypeOf(days, day))

\* scrollProgress > 0.01 && activeDay < weatherDays.length - 1
IsTransitioningOf(days, day, progress) ==
    100 * progress > ProgressDen /\ day < Len(days) - 1

currentType     == CurrentTypeOf(weatherDays, activeDay)
nextType        == NextTypeOf(weatherDays, activeDay)
transitionKey   == TransitionKeyOf(weatherDays, activeDay)
isTransitioning == IsTransitioningOf(weatherDays, activeDay, scrollProgress)
\* An App that hands scrollProgress to the scene as it is.
sceneProgressUngated == scrollProgress

\* the progress handed to WeatherScene
sceneProgress == IF isTransitioning THEN scrollProgress ELSE 0

--------------------------------------------------------------------------
\* WeatherScene: the frame-sequence check effect and the frame-image effect

CancelChecks(cs) ==
    [j \in DOMAIN cs |->
        IF cs[j].op = "check" THEN [cs[j] EXCEPT !.cancelled = TRUE] ELSE cs[j]]

\* check() after checkFolderExists returned fmt !== null for activation i
CheckReturn(i, cs, fmt, htf, formats, counts, cache) ==
    LET c   == [cs[i] EXCEPT !.pc = "done", !.fmt = fmt, !.exists = (fmt # NullFormat)]
        cs1 == [cs EXCEPT ![i] = c]
    IN  IF c.cancelled THEN [htf |-> htf, calls |-> cs1]
        ELSE IF ~c.exists THEN [htf |-> "false", calls |-> cs1]
        ELSE [htf   |-> "true",
              calls |-> cs1 \o
                 << CountEntry(Call("getFolderFrameCount", c.folder, 0),
                               formats, counts, cache),
                    PreloadEntry(Call("preloadTransition", c.folder, 0),
                                 formats, counts, cache) >>]

\* The effect of lines 127-146 run for a new transitionKey (after the cleanup
\* of its previous run)
FrameCheck(key, cs, formats, counts, cache) ==
    LET cs0 == CancelChecks(cs)
    IN  IF key = NULL THEN [htf |-> "false", calls |-> cs0]
        ELSE LET c0 == [Call("check", key, 0) EXCEPT !.after =
                           {j \in DOMAIN cs : /\ cs[j].op = "check" /\ cs[j].folder = key
                                              /\ cs[j].pc = "done"}]
                 c  == DetectEntry(c0, formats)
             IN  IF c.pc = "detect" THEN [htf |-> "null", calls |-> Append(cs0, c)]
                 ELSE CheckReturn(Len(cs0) + 1, Append(cs0, c), c.fmt, "null",
                                  formats, counts, cache)

\* The frame-image effect (lines 149-155; src/unnamed/part_004 86-89) of a
\* render whose check effect left r.htf and r.calls: it runs when one of its
\* dependencies changed
FrameImageEffect(r) ==
    LET key   == TransitionKeyOf(weatherDays, activeDay)
        key1  == TransitionKeyOf(weatherDays', activeDay')
        isT   == IsTransitioningOf(weatherDays, activeDay, scrollProgress)
        isT1  == IsTransitioningOf(weatherDays', activeDay', scrollProgress')
    IN  /\ hasTransitionFrames' = r.htf
        /\ calls' = r.calls
        /\ IF /\ error' = NULL
              /\ <<isT1, r.htf, key1, scrollProgress'>>
                   # <<isT, hasTransitionFrames, key, scrollProgress>>
              /\ isT1 /\ r.htf = "true" /\ key1 # NULL
           THEN LET total == CachedTotal(folderFrameCounts', key1)
                    frame == frameIndex(scrollProgress', total)
                    url   == FrameUrlIn(folderFormats', key1, frame)
                IN  /\ frameSrc' = IF url # NULL /\ frameSrc # url THEN url ELSE frameSrc
                    /\ prevMapOut' = mapOut
                    /\ mapOut' = [progress |-> scrollProgress', total |-> total,
                                  frame |-> frame]
           ELSE UNCHANGED <<frameSrc, mapVars>>

\* What a render does to the scene, once the handler has set the App state
\* and the loader maps: htf and cs are the handler's own hasTransitionFrames
\* and calls
SceneEffects(htf, cs) ==
    LET key   == TransitionKeyOf(weatherDays, activeDay)
        key1  == TransitionKeyOf(weatherDays', activeDay')
    IN  FrameImageEffect(
            IF error' # NULL
                THEN [htf |-> "null", calls |-> CancelChecks(cs)]
            ELSE IF key1 # key
                THEN FrameCheck(key1, cs, folderFormats', folderFrameCounts', frameCache')
            ELSE [htf |-> htf, calls |-> cs])

\* The earlier video WeatherScene (src/unnamed/part_004 1-155): check() of
\* its check effect (lines 66-73) after checkFolderExists returned, with no
\* cancelled flag
LegacyCheckReturn(i, cs, fmt, htf, formats, counts, cache) ==
    LET c   == [cs[i] EXCEPT !.pc = "done", !.fmt = fmt, !.exists = (fmt # NullFormat)]
        cs1 == [cs EXCEPT ![i] = c]
    IN  IF ~c.exists THEN [htf |-> "false", calls |-> cs1]
        ELSE [htf   |-> "true",
              calls |-> cs1 \o
                 << CountEntry(Call("getFolderFrameCount", c.folder, 0),
                               formats, counts, cache),
                    PreloadEntry(Call("preloadTransition", c.folder, 0),
                                 formats, counts, cache) >>]

\* Its check effect (lines 64-75) run for a new transitionKey: no cleanup,
\* and the flag keeps its value while the check is pending
LegacyFrameCheck(key, htf, cs, formats, counts, cache) ==
    IF key = NULL THEN [htf |-> "false", calls |-> cs]
    ELSE LET c == DetectEntry(Call("check", key, 0), formats)
         IN  IF c.pc = "detect" THEN [htf |-> htf, calls |-> Append(cs, c)]
             ELSE LegacyCheckReturn(Len(cs) + 1, Append(cs, c), c.fmt, htf,
                                    formats, counts, cache)

\* What a render does to that scene
LegacySceneEffects(htf, cs) ==
    LET key   == TransitionKeyOf(weatherDays, activeDay)
        key1  == TransitionKeyOf(weatherDays', activeDay')
    IN  FrameImageEffect(
            IF key1 # key
                THEN LegacyFrameCheck(key1, htf, cs, folderFormats', folderFrameCounts',
                                      frameCache')
            ELSE [htf |-> htf, calls |-> cs])

--------------------------------------------------------------------------
\* WeatherScene: the video layers.  The specifications of the loader and of
\* the gesture controller leave the two video elements as the mount left
\* them; SpecVideo drives them.

VIDEO_BASE == "/videos"
PARALLAX_PCT == 6

\* `${VIDEO_BASE}/${type}.mp4`
VideoUrl(type) == VIDEO_BASE \o "/" \o type \o ".mp4"

\* s.endsWith(suffix)
EndsWith(s, suffix) ==
    Len(s) >= Len(suffix) /\ SubSeq(s, Len(s) - Len(suffix) + 1, Len(s)) = suffix

\* The load-current-video effect (lines 34-62) for type: the video element
\* after video.src = src, the two addEventListener calls and video.load()
LoadingVideo(type) ==
    [src |-> VideoUrl(type), state |-> "loading", onCanPlay |-> TRUE, onError |-> TRUE]

\* The preload-next effect (lines 66-82): next.src after it
PreloadNext(src, type, same) ==
    IF same \/ EndsWith(src, type \o ".mp4") THEN src ELSE VideoUrl(type)

\* A sync effect that never mirrors the current video.
SyncNextNoMirror(src, type, same, transitioning) == src

\* The sync-next effect (lines 85-124): next.src after it
SyncNext(src, type, same, transitioning) ==
    IF transitioning /\ same /\ ~EndsWith(src, type \o ".mp4")
        THEN VideoUrl(type)
        ELSE src

\* The video layers once the effects of the first render of the shown
\* forecast have run
VideoMounted ==
    /\ videoReady = FALSE
    /\ currentVideo = LoadingVideo(currentType)
    /\ nextVideoSrc = SyncNext(PreloadNext("", nextType, currentType = nextType),
                               currentType, currentType = nextType, isTransitioning)
    /\ readyFrames = [outer |-> 0, inner |-> 0]
    /\ videoFailed = FALSE

\* The canvas WeatherScene (src/unnamed/part_004 175-179) at its first render
CanvasMounted ==
    /\ hasFrames = "null"
    /\ idleFrame = 1
    /\ frameNum = 1
    /\ canvasSrc = ""

\* App's location state (src/unnamed/part_000 26) at its first render; the
\* activations of load() are listed in fetches only where several fetches
\* can be in flight, elsewhere the one fetch in flight is the loading flag
DEFAULT_LOCATION == "Paris"

FirstLoad ==
    /\ location = DEFAULT_LOCATION
    /\ fetches = <<>>

\* The three video effects of a render, once the handler has set the App
\* state: the load effect runs when currentType changed; the other two leave
\* next.src alone when their dependencies did not change
VideoEffects ==
    LET type1 == CurrentTypeOf(weatherDays', activeDay')
        next1 == NextTypeOf(weatherDays', activeDay')
        isT1  == IsTransitioningOf(weatherDays', activeDay', scrollProgress')
    IN  /\ IF type1 # currentType
           THEN /\ videoReady' = FALSE
                /\ currentVideo' = LoadingVideo(type1)
                /\ videoFailed' = FALSE
           ELSE UNCHANGED <<videoReady, currentVideo, videoFailed>>
        /\ nextVideoSrc' = SyncNext(PreloadNext(nextVideoSrc, next1, type1 = next1),
                                    type1, type1 = next1, isT1)
        /\ UNCHANGED readyFrames

\* easeInOut(t) of WeatherScene for t = p/ProgressDen, as a numerator over
\* EaseDen: t < 0.5 ? 2 t^2 : -1 + (4 - 2 t) t
EaseDen == (ProgressDen * ProgressDen) \div 2

sceneEaseInOut(p) ==
    IF 2 * p < ProgressDen THEN p * p
    ELSE 2 * ProgressDen * p - p * p - EaseDen

\* opacities are numerators over OpacityDen, so that progress / 0.12 is exact
OpacityDen == 12 * ProgressDen

\* A layer math whose same-type branch pushes the current layer up.
LayerMathPushesSame(transitioning, htf, same, p) ==
    LET eased == sceneEaseInOut(p)
    IN  IF ~transitioning
        THEN [currentTransform |-> 0, nextTransform |-> 100 * EaseDen,
              frameOpacity |-> 0, currentOpacity |-> OpacityDen]
        ELSE IF htf = "true"
        THEN [currentTransform |-> 0, nextTransform |-> 100 * EaseDen,
              frameOpacity |-> Min(OpacityDen, 100 * p),
              currentOpacity |-> OpacityDen - Min(OpacityDen, 100 * p)]
        ELSE [currentTransform |-> 0 - PARALLAX_PCT * eased,
              nextTransform |-> (EaseDen - eased) * 100,
              frameOpacity |-> 0, currentOpacity |-> OpacityDen]

\* A layer math whose frame branch leaves the current layer opaque.
LayerMathNoFade(transitioning, htf, same, p) ==
    LET eased == sceneEaseInOut(p)
    IN  IF ~transitioning
        THEN [currentTransform |-> 0, nextTransform |-> 100 * EaseDen,
              frameOpacity |-> 0, currentOpacity |-> OpacityDen]
        ELSE IF htf = "true"
        THEN [currentTransform |-> 0, nextTransform |-> 100 * EaseDen,
              frameOpacity |-> Min(OpacityDen, 100 * p),
              currentOpacity |-> OpacityDen]
        ELSE IF same
        THEN [currentTransform |-> 0, nextTransform |-> (EaseDen - eased) * 100,
              frameOpacity |-> 0, currentOpacity |-> OpacityDen]
        ELSE [currentTransform |-> 0 - PARALLAX_PCT * eased,
              nextTransform |-> (EaseDen - eased) * 100,
              frameOpacity |-> 0, currentOpacity |-> OpacityDen]

\* The layer math (lines 158-193); a transform is the percentage of its
\* translateY as a numerator over EaseDen
LayerMath(transitioning, htf, same, p) ==
    LET eased == sceneEaseInOut(p)
    IN  IF ~transitioning
        THEN [currentTransform |-> 0, nextTransform |-> 100 * EaseDen,
              frameOpacity |-> 0, currentOpacity |-> OpacityDen]
        ELSE IF htf = "true"
        THEN [currentTransform |-> 0, nextTransform |-> 100 * EaseDen,
              frameOpacity |-> Min(OpacityDen, 100 * p),
              currentOpacity |-> OpacityDen - Min(OpacityDen, 100 * p)]
        ELSE IF same
        THEN [currentTransform |-> 0, nextTransform |-> (EaseDen - eased) * 100,
              frameOpacity |-> 0, currentOpacity |-> OpacityDen]
        ELSE [currentTransform |-> 0 - PARALLAX_PCT * eased,
              nextTransform |-> (EaseDen - eased) * 100,
              frameOpacity |-> 0, currentOpacity |-> OpacityDen]

Layers == LayerMath(isTransitioning, hasTransitionFrames, currentType = nextType,
                    sceneProgress)

\* opacity: videoReady ? 0 : 1 of the fallback layer (line 211)
fallbackOpacity == IF videoReady THEN 0 ELSE OpacityDen

\* opacity: videoReady ? currentOpacity : 0 of the current layer (line 224)
currentLayerOpacity == IF videoReady THEN Layers.currentOpacity ELSE 0

--------------------------------------------------------------------------
\* App: the gesture controller.  Time is counted in ticks, AnimTicks of them
\* in TRANSITION_DURATION; handle 0 and timestamp 0 stand for null.

WHEEL_THRESHOLD == 30
SWIPE_MIN == 40

Abs(x) == IF x < 0 THEN 0 - x ELSE x

\* easeInOut(t) for t = k/AnimTicks, as a numerator over ProgressDen:
\* t < 0.5 ? 4 t^3 : 1 - (-2 t + 2)^3 / 2
easeInOut(k) ==
    IF 2 * k < AnimTicks
        THEN 8 * k * k * k
        ELSE ProgressDen - 8 * (AnimTicks - k) * (AnimTicks - k) * (AnimTicks - k)

\* from + (target - from) * easedT
NewProgress(from, target, easedT) ==
    from + ((target * ProgressDen - from) * easedT) \div ProgressDen

\* requestAnimationFrame returns a handle no scheduled callback has
FreshHandle(pending, ref) ==
    CHOOSE h \in 1..(Cardinality(pending) + 2) : h \notin pending /\ h # ref

\* cancelAnimationFrame(handle)
CancelAnimationFrame(pending, handle) == pending \ {handle}

\* An animation-frame callback that stays scheduled after it has run.
FrameConsumesNothing(pending, h) == pending

\* A requestAnimationFrame callback runs once: its handle is spent
FrameConsumes(pending, h) == pending \ {h}

\* A forward test without the last-day bound.
ForwardAllowedAnywhere(direction, day, total) == direction > 0

\* direction > 0 && day < total - 1
ForwardAllowed(direction, day, total) == direction > 0 /\ day < total - 1

\* A backward test that never passes.
BackwardAllowedNever(direction, day) == FALSE

\* direction < 0 && day > 0
BackwardAllowed(direction, day) == direction < 0 /\ day > 0

\* Handlers that never look at the animating flag.
InputIgnoredNever(animating) == FALSE

\* if (isAnimatingRef.current) return
InputIgnored(animating) == animating

\* What an App event found: the refs and state before it ran
Snapshot ==
    [day |-> activeDayRef, activeDay |-> activeDay,
     progress |-> progressRef, scrollProgress |-> scrollProgress,
     animating |-> isAnimatingRef,
     run |-> <<animRef, animStartRef, animFromRef, animTargetRef>>,
     pending |-> rafPending, wheelAccum |-> wheelAccum,
     total |-> Len(weatherDays)]

\* kind names the handler, dir the direction it asked triggerTransition for
\* (0: it did not call it), jumped the day of the last direct jump while no
\* wheel, touch, key or reload has followed it (-1 otherwise)
Event(kind, dir, jumped) ==
    [kind |-> kind, dir |-> dir, jumped |-> jumped, pre |-> Snapshot]

NoEvent ==
    [kind |-> "mount", dir |-> 0, jumped |-> -1,
     pre |-> [day |-> 0, activeDay |-> 0, progress |-> 0, scrollProgress |-> 0,
              animating |-> FALSE, run |-> <<0, 0, 0, 0>>, pending |-> {},
              wheelAccum |-> 0, total |-> 0]]

\* The controller as the mount leaves it
Unmoved ==
    /\ animRef = 0 /\ animStartRef = 0 /\ animFromRef = 0 /\ animTargetRef = 0
    /\ isAnimatingRef = FALSE /\ rafPending = {} /\ now = 1 /\ runDay = 0
    /\ touchStartYRef = -1 /\ wheelAccum = 0 /\ wheelTimer = FALSE
    /\ event = NoEvent

\* triggerTransition(direction, numDays)
triggerTransition(direction, numDays) ==
    LET day     == activeDayRef
        pending == CancelAnimationFrame(rafPending, animRef)
    IN  IF ForwardAllowed(direction, day, numDays)
        THEN LET h == FreshHandle(pending, animRef)
             IN  /\ animFromRef' = progressRef
                 /\ animTargetRef' = 1
                 /\ animStartRef' = 0
                 /\ isAnimatingRef' = TRUE
                 /\ animRef' = h
                 /\ rafPending' = pending \cup {h}
                 /\ runDay' = day
                 /\ UNCHANGED <<activeDayRef, progressRef, activeDay, scrollProgress>>
        ELSE IF BackwardAllowed(direction, day)
        THEN /\ activeDayRef' = day - 1
             /\ progressRef' = 0
             /\ activeDay' = day - 1
             /\ scrollProgress' = 0
             /\ rafPending' = pending
             /\ UNCHANGED <<animRef, animStartRef, animFromRef, animTargetRef,
                            isAnimatingRef, runDay>>
        ELSE /\ rafPending' = pending
             /\ UNCHANGED <<activeDayRef, progressRef, activeDay, scrollProgress,
                            animRef, animStartRef, animFromRef, animTargetRef,
                            isAnimatingRef, runDay>>

\* A handler returns without touching the controller
NoTrigger ==
    UNCHANGED <<activeDayRef, progressRef, activeDay, scrollProgress, animRef,
                animStartRef, animFromRef, animTargetRef, isAnimatingRef, rafPending,
                runDay>>

\* The rest of every App event: the render and the scene's effects
Rendered ==
    /\ UNCHANGED <<folderFormats, folderFrameCounts, frameCache, server, videoVars, canvasVars, fetchVars, keyVars>>
    /\ SceneEffects(hasTransitionFrames, calls)

\* the listeners are attached while there are days (line 156)
Listening == Len(weatherDays) # 0

\* A wheel test that passes for any accumulated delta but 0.
WheelFiresAlways(accum) == accum # 0

\* Math.abs(wheelAccum) >= WHEEL_THRESHOLD
WheelFires(accum) == Abs(accum) >= WHEEL_THRESHOLD

\* !(Math.abs(delta) < 40)
SwipeFires(delta) == Abs(delta) >= SWIPE_MIN

\* onWheel(e) with e.deltaY = deltaY
onWheel(deltaY) ==
    /\ Listening
    /\ event' = Event("wheel",
                      IF InputIgnored(isAnimatingRef)
                         \/ ~WheelFires(wheelAccum + deltaY) THEN 0
                      ELSE IF wheelAccum + deltaY > 0 THEN 1 ELSE -1, -1)
    /\ IF InputIgnored(isAnimatingRef)
       THEN NoTrigger /\ UNCHANGED <<wheelAccum, wheelTimer>>
       ELSE /\ wheelTimer' = TRUE
            /\ IF WheelFires(wheelAccum + deltaY)
               THEN /\ wheelAccum' = 0
                    /\ triggerTransition(IF wheelAccum + deltaY > 0 THEN 1 ELSE -1,
                                         Len(weatherDays))
               ELSE /\ wheelAccum' = wheelAccum + deltaY
                    /\ NoTrigger
    /\ UNCHANGED <<weatherDays, loading, error, now, touchStartYRef>>
    /\ Rendered

\* the 200 ms timeout of onWheel fires
WheelTimerFires ==
    /\ wheelTimer
    /\ wheelTimer' = FALSE
    /\ wheelAccum' = 0
    /\ event' = Event("wheelTimer", 0, event.jumped)
    /\ NoTrigger
    /\ UNCHANGED <<weatherDays, loading, error, now, touchStartYRef>>
    /\ Rendered

\* onTouchStart(e) with e.touches[0].clientY = y
onTouchStart(y) ==
    /\ Listening
    /\ touchStartYRef' = y
    /\ event' = Event("touchstart", 0, -1)
    /\ NoTrigger
    /\ UNCHANGED <<weatherDays, loading, error, now, wheelAccum, wheelTimer>>
    /\ Rendered

\* onTouchEnd(e) with e.changedTouches[0].clientY = y
onTouchEnd(y) ==
    /\ Listening
    /\ LET delta == touchStartYRef - y
           calls_trigger == /\ touchStartYRef # -1
                            /\ SwipeFires(delta)
                            /\ ~InputIgnored(isAnimatingRef)
       IN  /\ event' = Event("touchend",
                             IF ~calls_trigger THEN 0 ELSE IF delta > 0 THEN 1 ELSE -1,
                             -1)
           /\ touchStartYRef' = -1
           /\ IF calls_trigger
              THEN triggerTransition(IF delta > 0 THEN 1 ELSE -1, Len(weatherDays))
              ELSE NoTrigger
    /\ UNCHANGED <<weatherDays, loading, error, now, wheelAccum, wheelTimer>>
    /\ Rendered

\* the direction onKeyDown asks for: 1, -1, or 0 for a key it does not handle
KeyDirection(key) ==
    IF key \in {"ArrowDown", "PageDown"} THEN 1
    ELSE IF key \in {"ArrowUp", "PageUp"} THEN -1
    ELSE 0

\* onKeyDown(e) with e.key = key
onKeyDown(key) ==
    /\ Listening
    /\ LET dir == IF InputIgnored(isAnimatingRef) THEN 0 ELSE KeyDirection(key)
       IN  /\ event' = Event("keydown", dir, -1)
           /\ IF dir # 0 THEN triggerTransition(dir, Len(weatherDays)) ELSE NoTrigger
    /\ UNCHANGED <<weatherDays, loading, error, now, inputVars>>
    /\ Rendered

\* runAnimation(timestamp): the scheduled callback h runs, dt ticks after the
\* last frame.  It reads timestamps only as differences within one run, so
\* the clock is counted from the completion of the last run
runAnimation(h, dt) ==
    /\ h \in rafPending
    /\ LET timestamp == now + dt
           start     == IF animStartRef = 0 THEN timestamp ELSE animStartRef
           rawT      == Min(timestamp - start, AnimTicks)
           target    == animTargetRef
           newProg   == NewProgress(animFromRef, target, easeInOut(rawT))
           spent     == FrameConsumes(rafPending, h)
       IN  /\ animStartRef' = start
           /\ now' = IF rawT < AnimTicks THEN timestamp ELSE 1
           /\ IF rawT < AnimTicks
              THEN LET h1 == FreshHandle(spent, animRef)
                   IN  /\ progressRef' = newProg
                       /\ scrollProgress' = newProg
                       /\ animRef' = h1
                       /\ rafPending' = spent \cup {h1}
                       /\ UNCHANGED <<activeDayRef, activeDay, isAnimatingRef>>
              ELSE /\ isAnimatingRef' = FALSE
                   /\ animRef' = 0
                   /\ rafPending' = spent
                   /\ progressRef' = 0
                   /\ scrollProgress' = 0
                   /\ IF target = 1
                      THEN /\ activeDayRef' = activeDayRef + 1
                           /\ activeDay' = activeDayRef + 1
                      ELSE UNCHANGED <<activeDayRef, activeDay>>
    /\ event' = Event("frame", 0, event.jumped)
    /\ UNCHANGED <<weatherDays, loading, error, animFromRef, animTargetRef, runDay,
                   inputVars>>
    /\ Rendered

\* load() up to its await, after a location change in LocationSearch (one
\* fetch at a time)
LoadStarts ==
    /\ ~loading /\ error = NULL
    /\ loading' = TRUE
    /\ activeDayRef' = 0
    /\ progressRef' = 0
    /\ activeDay' = 0
    /\ scrollProgress' = 0
    /\ event' = Event("reload", 0, -1)
    /\ UNCHANGED <<weatherDays, error, animVars, inputVars>>
    /\ Rendered

\* The input-wiring effect (lines 155-219) when the forecast becomes days:
\* on a change of length the cleanup of the previous run cancels the
\* scheduled frame and the wheel timeout, and the new run starts with a
\* wheelAccum of 0
InputWiring(days) ==
    IF Len(days) = Len(weatherDays)
    THEN UNCHANGED <<rafPending, wheelAccum, wheelTimer>>
    ELSE /\ rafPending' = IF Listening THEN CancelAnimationFrame(rafPending, animRef)
                          ELSE rafPending
         /\ wheelAccum' = 0
         /\ wheelTimer' = FALSE

--------------------------------------------------------------------------
\* Inputs

DaySamples == { <<0, 61, 61>>, <<0, 61, 0>> }

Folders == { TransitionKeyOf(d, i) : d \in DaySamples, i \in 0..2 } \ {NULL}

\* runs of up to MaxFormatsPresent consecutive candidates
FormatSets ==
    { k..Min(k + m - 1, Len(FORMAT_CANDIDATES)) :
        k \in 1..Len(FORMAT_CANDIDATES), m \in 1..MaxFormatsPresent }

Layouts ==
    { [formats |-> F, count |-> 1] : F \in FormatSets }
      \cup { [formats |-> {k}, count |-> n] : k \in {1, 2}, n \in {51, 120} }

\* at most one of the folders is served
Servers == { <<>> } \cup { [x \in {f} |-> l] : f \in Folders, l \in Layouts }

--------------------------------------------------------------------------
\* App handlers

\* load(): the fetch resolves with the forecast
FetchResolves(days) ==
    /\ loading /\ error = NULL
    /\ weatherDays' = days
    /\ loading' = FALSE
    /\ InputWiring(days)
    /\ event' = Event("loaded", 0, event.jumped)
    /\ UNCHANGED <<error, activeDay, activeDayRef, scrollProgress, progressRef>>
    /\ UNCHANGED <<animRef, animStartRef, animFromRef, animTargetRef, isAnimatingRef,
                   now, runDay, touchStartYRef>>
    /\ UNCHANGED <<folderFormats, folderFrameCounts, frameCache, server, videoVars, canvasVars, fetchVars, keyVars>>
    /\ SceneEffects(hasTransitionFrames, calls)

\* load(): the fetch rejects
FetchRejects ==
    /\ loading /\ error = NULL
    /\ error' = "fetch failed"
    /\ loading' = FALSE
    /\ event' = Event("failed", 0, event.jumped)
    /\ UNCHANGED <<weatherDays, activeDay, activeDayRef, scrollProgress, progressRef>>
    /\ UNCHANGED <<animVars, inputVars>>
    /\ UNCHANGED <<folderFormats, folderFrameCounts, frameCache, server, videoVars, canvasVars, fetchVars, keyVars>>
    /\ SceneEffects(hasTransitionFrames, calls)

\* onDaySelect(i) and the day-dot onClick
OnDaySelect(i) ==
    /\ ~loading /\ error = NULL
    /\ i \in 0..(Len(weatherDays) - 1)
    /\ Cardinality({j \in DOMAIN calls : calls[j].op = "check"}) < MaxChecks
    /\ Cardinality({j \in DOMAIN calls : calls[j].pc = "count"}) + 2 <= MaxSearches
    /\ activeDayRef' = i
    /\ progressRef' = 0
    /\ activeDay' = i
    /\ scrollProgress' = 0
    /\ event' = Event("jump", 0, i)
    /\ UNCHANGED <<weatherDays, loading, error, animVars, inputVars>>
    /\ UNCHANGED <<folderFormats, folderFrameCounts, frameCache, server, videoVars, canvasVars, fetchVars, keyVars>>
    /\ SceneEffects(hasTransitionFrames, calls)

--------------------------------------------------------------------------
\* The location and the fetch effect (src/unnamed/part_000 69-89, 228, 253)
\* where several activations of load() can be in flight

MaxFetches == 3

Locations == {"Paris", "Tokyo", "Lima"}

\* processWeatherDays(await fetchWeatherData(lat, lon)): the weather codes
\* the API answers for the place
Forecast(loc) ==
    CASE loc = "Paris" -> <<0, 0, 0>>
      [] loc = "Tokyo" -> <<3, 3, 3>>
      [] OTHER         -> <<61, 61, 61>>

\* the dependencies [location.lat, location.lon] of the fetch effect changed
LoadEffectRuns(loc) == loc # location

\* an activation of load() at its await
Load(loc) == [loc |-> loc, pc |-> "await"]

\* The scene effects of a render of the main view: WeatherScene mounts anew
\* when the error screen was shown before
MainViewEffects ==
    IF error # NULL
        THEN FrameImageEffect(
                FrameCheck(TransitionKeyOf(weatherDays', activeDay'), calls,
                           folderFormats', folderFrameCounts', frameCache'))
        ELSE SceneEffects(hasTransitionFrames, calls)

\* setLocation(loc) and the render it causes: load() runs up to its await
\* when the effect's dependencies changed
setLocation(loc, kind) ==
    /\ location' = loc
    /\ UNCHANGED <<weatherDays, animVars, inputVars>>
    /\ UNCHANGED <<folderFormats, folderFrameCounts, frameCache, server, videoVars,
                   canvasVars, keyVars>>
    /\ IF LoadEffectRuns(loc)
       THEN /\ fetches' = Append(fetches, Load(loc))
            /\ loading' = TRUE
            /\ error' = NULL
            /\ activeDayRef' = 0
            /\ progressRef' = 0
            /\ activeDay' = 0
            /\ scrollProgress' = 0
            /\ event' = Event(kind, 0, -1)
            /\ MainViewEffects
       ELSE /\ event' = Event(kind, 0, event.jumped)
            /\ UNCHANGED <<fetches, loading, error, activeDayRef, progressRef,
                           activeDay, scrollProgress, sceneVars, calls, mapVars>>

\* onLocationChange of LocationSearch, shown with the main view, and the
\* geolocation callbacks (lines 48-66)
onLocationChange(loc) ==
    /\ Len(fetches) < MaxFetches
    /\ setLocation(loc, "located")

\* onRetry of the error screen: setLocation({ ...location })
onRetry ==
    /\ error # NULL
    /\ setLocation(location, "retry")

\* load(): the fetch of activation i resolves
LoadResolves(i) ==
    /\ i \in DOMAIN fetches /\ fetches[i].pc = "await"
    /\ fetches' = [fetches EXCEPT ![i].pc = "ok"]
    /\ weatherDays' = Forecast(fetches[i].loc)
    /\ loading' = FALSE
    /\ InputWiring(Forecast(fetches[i].loc))
    /\ event' = Event("loaded", 0, event.jumped)
    /\ UNCHANGED <<error, activeDay, activeDayRef, scrollProgress, progressRef, location>>
    /\ UNCHANGED <<animRef, animStartRef, animFromRef, animTargetRef, isAnimatingRef,
                   now, runDay, touchStartYRef>>
    /\ UNCHANGED <<folderFormats, folderFrameCounts, frameCache, server, videoVars,
                   canvasVars, keyVars>>
    /\ SceneEffects(hasTransitionFrames, calls)

\* load(): the fetch of activation i rejects
LoadRejects(i) ==
    /\ i \in DOMAIN fetches /\ fetches[i].pc = "await"
    /\ fetches' = [fetches EXCEPT ![i].pc = "failed"]
    /\ error' = "fetch failed"
    /\ loading' = FALSE
    /\ event' = Event("failed", 0, event.jumped)
    /\ UNCHANGED <<weatherDays, activeDay, activeDayRef, scrollProgress, progressRef,
                   location>>
    /\ UNCHANGED <<animVars, inputVars>>
    /\ UNCHANGED <<folderFormats, folderFrameCounts, frameCache, server, videoVars,
                   canvasVars, keyVars>>
    /\ SceneEffects(hasTransitionFrames, calls)

--------------------------------------------------------------------------
\* frameLoader continuations

\* detectFormat after await probeUrl(url): the probe of candidate cand has
\* answered found
DetectProbeAnswers(i, found) ==
    /\ UNCHANGED <<appVars, folderFrameCounts, frameCache, server, videoVars, canvasVars,
                   fetchVars, keyVars>>
    /\ LET c   == calls[i]
           fmt == FORMAT_CANDIDATES[c.cand]
       IN  IF ~DetectLoopEnds(found, c.cand)
           THEN /\ calls' = [calls EXCEPT ![i] =
                       [c EXCEPT !.cand = c.cand + 1,
                                 !.issued = Append(@, buildUrl(c.folder, 1,
                                                FORMAT_CANDIDATES[c.cand + 1]))]]
                /\ UNCHANGED <<folderFormats, sceneVars, mapVars>>
           ELSE LET ret == IF found THEN fmt ELSE NullFormat
                IN  /\ folderFormats' = MemoizeFormat(folderFormats, c.folder, ret)
                    /\ LET r == CheckReturn(i, calls, ret, hasTransitionFrames,
                                            folderFormats', folderFrameCounts, frameCache)
                       IN  SceneEffects(r.htf, r.calls)

\* detectFormat: the probe of candidate cand settles
DetectProbeSettles(i) ==
    /\ i \in DOMAIN calls /\ calls[i].pc = "detect"
    /\ DetectProbeAnswers(i, probeUrl(calls[i].folder, 1,
                              buildUrl(calls[i].folder, 1,
                                       FORMAT_CANDIDATES[calls[i].cand])))

\* detectFormat: the image of a served candidate fails to load (img.onerror
\* on a network error), so the probe resolves false
DetectProbeFails(i) ==
    /\ i \in DOMAIN calls /\ calls[i].pc = "detect"
    /\ probeUrl(calls[i].folder, 1,
                buildUrl(calls[i].folder, 1, FORMAT_CANDIDATES[calls[i].cand]))
    /\ DetectProbeAnswers(i, FALSE)

\* getFolderFrameCount after await probeUrl(...): the probe of frame mid has
\* answered exists
CountProbeAnswers(i, exists) ==
    /\ LET c  == calls[i]
           c1 == CountStep(c, exists)
       IN  IF c1.lo <= c1.hi
           THEN /\ calls' = [calls EXCEPT ![i] =
                       [c1 EXCEPT !.issued = Append(@, buildUrl(c.folder, Mid(c1), c.fmt))]]
                /\ UNCHANGED folderFrameCounts
           ELSE /\ folderFrameCounts' = MapSet(folderFrameCounts, c.folder, c1.count)
                /\ calls' = [calls EXCEPT ![i] =
                       AfterCount(c1, c1.count, folderFormats, frameCache)]
    /\ UNCHANGED <<appVars, sceneVars, folderFormats, frameCache, server, videoVars,
                   canvasVars, fetchVars, keyVars, mapVars>>

\* getFolderFrameCount: the probe of frame mid settles
CountProbeSettles(i) ==
    /\ i \in DOMAIN calls /\ calls[i].pc = "count"
    /\ CountProbeAnswers(i, probeUrl(calls[i].folder, Mid(calls[i]),
                                     buildUrl(calls[i].folder, Mid(calls[i]),
                                              calls[i].fmt)))

\* getFolderFrameCount: the probe of frame mid settles with either answer,
\* whatever is served (frames missing in the middle, images failing to load)
CountProbeSettlesAnyhow(i, exists) ==
    /\ i \in DOMAIN calls /\ calls[i].pc = "count"
    /\ CountProbeAnswers(i, exists)

\* The loads a chunk's Promise.all may end with: all loaded, none, all but one
LoadOutcomes(loads) == { loads, {}, loads \ {CHOOSE u \in loads : TRUE} }

\* A preloadTransition that goes on to the next chunk without the timer.
AfterLoadsNoYield(c, formats, cache) ==
    PreloadChunk([c EXCEPT !.start = @ + chunkSize, !.loads = {}], formats, cache)

\* preloadTransition once preloadFrameRange's Promise.all is fulfilled: it
\* sets the 8 ms timer and awaits it
AfterLoads(c, formats, cache) == [c EXCEPT !.pc = "yield", !.loads = {}]

\* preloadFrameRange: every load of the chunk has settled, those in ok loaded
LoadsSettle(i) ==
    /\ i \in DOMAIN calls /\ calls[i].pc = "load"
    /\ \E ok \in LoadOutcomes(calls[i].loads) : frameCache' = frameCache \cup ok
    /\ calls' = [calls EXCEPT ![i] = AfterLoads(@, folderFormats, frameCache')]
    /\ UNCHANGED <<appVars, sceneVars, folderFormats, folderFrameCounts, server, videoVars, canvasVars, fetchVars,
                   keyVars, mapVars>>

\* preloadTransition: the 8 ms timer fires
TimerFires(i) ==
    /\ i \in DOMAIN calls /\ calls[i].pc = "yield"
    /\ calls' = [calls EXCEPT ![i] =
           PreloadChunk([@ EXCEPT !.start = @ + chunkSize], folderFormats, frameCache)]
    /\ UNCHANGED <<appVars, sceneVars, folderFormats, folderFrameCounts, frameCache,
                   server, videoVars, canvasVars, fetchVars, keyVars, mapVars>>

--------------------------------------------------------------------------
\* The app from its mount: the forecast is being fetched, the scene shows no
\* days (transitionKey is null, so the check effect has set
\* hasTransitionFrames to false)

\* each check is one activation and starts at most two more
MaxCalls == 3 * MaxChecks

Init ==
    /\ weatherDays = <<>> /\ loading = TRUE /\ error = NULL
    /\ activeDay = 0 /\ activeDayRef = 0 /\ scrollProgress = 0 /\ progressRef = 0
    /\ Unmoved /\ VideoMounted /\ CanvasMounted /\ FirstLoad
    /\ hasTransitionFrames = "false" /\ frameSrc = ""
    /\ folderFormats = <<>> /\ folderFrameCounts = <<>> /\ frameCache = {}
    /\ calls = <<>>
    /\ server \in Servers
    /\ fromType = "sunny" /\ toType = "sunny" /\ keyOut = NULL
    /\ prevFromType = "sunny" /\ prevToType = "sunny" /\ prevKeyOut = NULL
    /\ mapOut = NoMapping /\ prevMapOut = NoMapping

Next ==
    \/ \E days \in DaySamples : FetchResolves(days)
    \/ FetchRejects
    \/ \E i \in 0..2 : OnDaySelect(i)
    \/ \E i \in 1..MaxCalls : DetectProbeSettles(i)
    \/ \E i \in 1..MaxCalls : CountProbeSettles(i)
    \/ \E i \in 1..MaxCalls : LoadsSettle(i)
    \/ \E i \in 1..MaxCalls : TimerFires(i)

Spec == Init /\ [][Next]_vars

--------------------------------------------------------------------------
\* The exported functions called directly

\* progressToFrameSync(p, folderName)
ApiProgressToFrameSync(p, folderName) ==
    /\ prevMapOut' = mapOut
    /\ mapOut' = [progress |-> p,
                  total    |-> CachedTotal(folderFrameCounts, folderName),
                  frame    |-> progressToFrameSync(p, folderName)]
    /\ UNCHANGED <<appVars, sceneVars, loaderVars, server, videoVars, canvasVars, fetchVars, keyVars>>

\* progressToFrame(p, folderName), up to its await
ApiProgressToFrame(p, folderName) ==
    /\ calls = <<>>
    /\ calls' = << CountEntry(Call("progressToFrame", folderName, p),
                              folderFormats, folderFrameCounts, frameCache) >>
    /\ UNCHANGED <<appVars, sceneVars, folderFormats, folderFrameCounts, frameCache,
                   server, videoVars, canvasVars, fetchVars, keyVars, mapVars>>

\* the caller of progressToFrame receives the frame index
ApiProgressToFrameReturns ==
    /\ Len(calls) = 1 /\ calls[1].op = "progressToFrame" /\ calls[1].pc = "done"
    /\ prevMapOut' = mapOut
    /\ mapOut' = [progress |-> calls[1].progress, total |-> calls[1].total,
                  frame |-> calls[1].value]
    /\ calls' = <<>>
    /\ UNCHANGED <<appVars, sceneVars, folderFormats, folderFrameCounts, frameCache,
                   server, videoVars, canvasVars, fetchVars, keyVars>>

\* getFolderFrameCount(folderName), up to its await, once every earlier call
\* has returned
ApiGetFolderFrameCount(folderName) ==
    /\ Len(calls) < MaxApiCalls
    /\ \A j \in DOMAIN calls : calls[j].pc = "done"
    /\ calls' = Append(calls, CountEntry(Call("getFolderFrameCount", folderName, 0),
                                         folderFormats, folderFrameCounts, frameCache))
    /\ UNCHANGED <<appVars, sceneVars, folderFormats, folderFrameCounts, frameCache,
                   server, videoVars, canvasVars, fetchVars, keyVars, mapVars>>

--------------------------------------------------------------------------
\* The frame mapping applied to drawn progress values and frame counts: the
\* forecast is shown on day 0, the transition folder has its format resolved

MapFolder == "sunny_to_rainy"

MapTotals == (1..MaxTotal) \cup {237, 800, 1999, SEARCH_HI}

InitMapper ==
    /\ weatherDays = <<0, 61, 61>> /\ loading = FALSE /\ error = NULL
    /\ activeDay = 0 /\ activeDayRef = 0 /\ scrollProgress = 0 /\ progressRef = 0
    /\ Unmoved /\ VideoMounted /\ CanvasMounted /\ FirstLoad
    /\ hasTransitionFrames = "true" /\ frameSrc = ""
    /\ \E n \in MapTotals :
          /\ server = [x \in {MapFolder} |-> [formats |-> {1}, count |-> n]]
          /\ folderFrameCounts \in { <<>>, [x \in {MapFolder} |-> n] }
    /\ folderFormats = [x \in {MapFolder} |-> FORMAT_CANDIDATES[1]]
    /\ frameCache = {} /\ calls = <<>>
    /\ fromType = "sunny" /\ toType = "sunny" /\ keyOut = NULL
    /\ prevFromType = "sunny" /\ prevToType = "sunny" /\ prevKeyOut = NULL
    /\ mapOut = NoMapping /\ prevMapOut = NoMapping

\* the progress values drawn: the ends, their neighbours, a quarter, a half
\* and an odd value
MapProgress ==
    {0, 1, 3, ProgressDen \div 4, ProgressDen \div 2, ProgressDen - 1, ProgressDen}

NextMapper ==
    \/ \E p \in MapProgress, f \in {MapFolder, "foggy"} : ApiProgressToFrameSync(p, f)
    \/ \E p \in MapProgress, f \in {MapFolder, "foggy"} : ApiProgressToFrame(p, f)
    \/ ApiProgressToFrameReturns
    \/ CountProbeSettles(1)

SpecMapper == InitMapper /\ [][NextMapper]_vars

--------------------------------------------------------------------------
\* getFolderFrameCount on a folder that serves frames 1..N in one naming
\* format, already resolved

InitCount ==
    /\ weatherDays = <<0, 61, 61>> /\ loading = FALSE /\ error = NULL
    /\ activeDay = 0 /\ activeDayRef = 0 /\ scrollProgress = 0 /\ progressRef = 0
    /\ Unmoved /\ VideoMounted /\ CanvasMounted /\ FirstLoad
    /\ hasTransitionFrames = "true" /\ frameSrc = ""
    /\ \E k \in {1, 2}, n \in 1..MaxServed :
          /\ server = [x \in {MapFolder} |-> [formats |-> {k}, count |-> n]]
          /\ folderFormats = [x \in {MapFolder} |-> FORMAT_CANDIDATES[k]]
    /\ folderFrameCounts = <<>> /\ frameCache = {} /\ calls = <<>>
    /\ fromType = "sunny" /\ toType = "sunny" /\ keyOut = NULL
    /\ prevFromType = "sunny" /\ prevToType = "sunny" /\ prevKeyOut = NULL
    /\ mapOut = NoMapping /\ prevMapOut = NoMapping

NextCount ==
    \/ ApiGetFolderFrameCount(MapFolder)
    \/ \E i \in 1..MaxApiCalls : CountProbeSettles(i)

SpecCount == InitCount /\ [][NextCount]_vars

--------------------------------------------------------------------------
\* getFolderFrameCount on folders in every state of resolution: never looked
\* for, memoized as having no frames (nothing is served), or resolved to the
\* format the folder is served in

InitUnresolved ==
    /\ weatherDays = <<0, 61, 61>> /\ loading = FALSE /\ error = NULL
    /\ activeDay = 0 /\ activeDayRef = 0 /\ scrollProgress = 0 /\ progressRef = 0
    /\ Unmoved /\ VideoMounted /\ CanvasMounted /\ FirstLoad
    /\ hasTransitionFrames = "false" /\ frameSrc = ""
    /\ \/ /\ server = <<>>
          /\ folderFormats \in { <<>>, [x \in {MapFolder} |-> NullFormat] }
       \/ \E k \in {1, 2}, n \in 1..MaxTotal :
            /\ server = [x \in {MapFolder} |-> [formats |-> {k}, count |-> n]]
            /\ folderFormats \in { <<>>, [x \in {MapFolder} |-> FORMAT_CANDIDATES[k]] }
    /\ folderFrameCounts = <<>> /\ frameCache = {} /\ calls = <<>>
    /\ fromType = "sunny" /\ toType = "sunny" /\ keyOut = NULL
    /\ prevFromType = "sunny" /\ prevToType = "sunny" /\ prevKeyOut = NULL
    /\ mapOut = NoMapping /\ prevMapOut = NoMapping

NextUnresolved ==
    \/ \E f \in {MapFolder, "sunny_to_foggy"} : ApiGetFolderFrameCount(f)
    \/ \E i \in 1..MaxApiCalls : CountProbeSettles(i)

SpecUnresolved == InitUnresolved /\ [][NextUnresolved]_vars

--------------------------------------------------------------------------
\* getTransitionKey applied to drawn pairs of weather types

InitKey ==
    /\ fromType \in WEATHER_TYPES /\ toType \in WEATHER_TYPES
    /\ keyOut = getTransitionKey(fromType, toType)
    /\ prevFromType = fromType /\ prevToType = toType /\ prevKeyOut = keyOut
    /\ weatherDays = <<>> /\ loading = TRUE /\ error = NULL
    /\ activeDay = 0 /\ activeDayRef = 0 /\ scrollProgress = 0 /\ progressRef = 0
    /\ Unmoved /\ VideoMounted /\ CanvasMounted /\ FirstLoad
    /\ hasTransitionFrames = "null" /\ frameSrc = ""
    /\ folderFormats = <<>> /\ folderFrameCounts = <<>> /\ frameCache = {}
    /\ calls = <<>> /\ server = <<>>
    /\ mapOut = NoMapping /\ prevMapOut = NoMapping

ApplyGetTransitionKey(a, b) ==
    /\ prevFromType' = fromType /\ prevToType' = toType /\ prevKeyOut' = keyOut
    /\ fromType' = a /\ toType' = b
    /\ keyOut' = getTransitionKey(a, b)
    /\ UNCHANGED <<appVars, sceneVars, loaderVars, server, videoVars, canvasVars, fetchVars, mapVars>>

NextKey == \E a \in WEATHER_TYPES, b \in WEATHER_TYPES : ApplyGetTransitionKey(a, b)

SpecKey == InitKey /\ [][NextKey]_vars

--------------------------------------------------------------------------
\* preloadFrameRange called directly on a folder whose format is resolved,
\* one call after the other, each image load settling on its own

\* A load whose failure rejects its promise.
LoadPromiseRejects(ok) == IF ok THEN "fulfilled" ELSE "rejected"

\* new Promise(resolve => { img.onload = resolve(img); img.onerror = resolve(null) })
LoadPromise(ok) == "fulfilled"

\* A load that is cached whether it succeeded or failed.
CacheAfterAlways(cache, url, ok) == cache \cup {url}

\* img.onload does frameCache.set(url, img); img.onerror leaves the cache alone
CacheAfter(cache, url, ok) == IF ok THEN cache \cup {url} ELSE cache

\* getCachedFrame(folderName, frameIndex): the cached image, named by its URL
getCachedFrame(folderName, index) ==
    IF ~HasFormat(folderFormats, folderName) THEN NULL
    ELSE IF FrameUrlIn(folderFormats, folderName, index) \in frameCache
        THEN FrameUrlIn(folderFormats, folderName, index)
    ELSE NULL

\* preloadFrameRange(folderName, startFrame, endFrame) up to its return
ApiPreloadFrameRange(folderName, startFrame, endFrame) ==
    /\ Len(calls) < MaxApiCalls
    /\ \A j \in DOMAIN calls : calls[j].pc = "done"
    /\ LET loads == preloadFrameRange(folderName, startFrame, endFrame,
                                      folderFormats, frameCache)
       IN  calls' = Append(calls,
               [Call("preloadFrameRange", folderName, 0) EXCEPT
                   !.pc = IF loads = {} THEN "done" ELSE "loads",
                   !.loads = loads,
                   !.requested = startFrame..endFrame])
    /\ UNCHANGED <<appVars, sceneVars, folderFormats, folderFrameCounts, frameCache,
                   server, videoVars, canvasVars, fetchVars, keyVars, mapVars>>

\* img.onload (ok) or img.onerror (~ok) of the load of frame index; a frame
\* that is not served cannot load.  Promise.all is rejected by the first
\* rejected promise and fulfilled once every promise is
ImageSettles(i, index, ok) ==
    /\ i \in DOMAIN calls /\ calls[i].pc \in {"loads", "rejected"}
    /\ LET c   == calls[i]
           url == FrameUrlIn(folderFormats, c.folder, index)
           pending == c.loads \ {url}
       IN  /\ url \in c.loads
           /\ ok => FileExists(c.folder, index, url)
           /\ frameCache' = CacheAfter(frameCache, url, ok)
           /\ calls' = [calls EXCEPT ![i] =
                 [c EXCEPT !.loads = pending,
                           !.loaded = IF ok THEN @ \cup {url} ELSE @,
                           !.failed = IF ok THEN @ ELSE @ \cup {url},
                           !.pc = IF c.pc = "rejected" \/ LoadPromise(ok) = "rejected"
                                      THEN "rejected"
                                  ELSE IF pending = {} THEN "done" ELSE "loads"]]
    /\ UNCHANGED <<appVars, sceneVars, folderFormats, folderFrameCounts, server, videoVars, canvasVars, fetchVars,
                   keyVars, mapVars>>

InitPreload ==
    /\ weatherDays = <<0, 61, 61>> /\ loading = FALSE /\ error = NULL
    /\ activeDay = 0 /\ activeDayRef = 0 /\ scrollProgress = 0 /\ progressRef = 0
    /\ Unmoved /\ VideoMounted /\ CanvasMounted /\ FirstLoad
    /\ hasTransitionFrames = "true" /\ frameSrc = ""
    /\ \E n \in 1..MaxRange :
          server = [x \in {MapFolder} |-> [formats |-> {1}, count |-> n]]
    /\ folderFormats = [x \in {MapFolder} |-> FORMAT_CANDIDATES[1]]
    /\ folderFrameCounts = <<>> /\ frameCache = {} /\ calls = <<>>
    /\ fromType = "sunny" /\ toType = "sunny" /\ keyOut = NULL
    /\ prevFromType = "sunny" /\ prevToType = "sunny" /\ prevKeyOut = NULL
    /\ mapOut = NoMapping /\ prevMapOut = NoMapping

NextPreload ==
    \/ \E a \in 1..MaxRange, b \in 1..MaxRange : ApiPreloadFrameRange(MapFolder, a, b)
    \/ \E i \in 1..MaxApiCalls, k \in 1..MaxRange, ok \in BOOLEAN : ImageSettles(i, k, ok)

SpecPreload == InitPreload /\ [][NextPreload]_vars

--------------------------------------------------------------------------
\* The gesture controller under wheel, touch, key, jump, reload and
\* animation-frame events, with forecasts whose days all have one weather
\* type (there is no transition folder to look for) and no frames served

GestureDays == { <<0, 0, 0>>, <<3, 3, 3>> }
WheelDeltas == {-40, -20, 20, 40}
TouchYs == {0, 50}
Keys == {"ArrowDown", "PageDown", "ArrowUp", "PageUp", "Enter"}
Handles == 1..3

InitGesture == Init /\ server = <<>>

NextGesture ==
    \/ \E days \in GestureDays : FetchResolves(days)
    \/ FetchRejects
    \/ LoadStarts
    \/ \E i \in 0..2 : OnDaySelect(i)
    \/ \E deltaY \in WheelDeltas : onWheel(deltaY)
    \/ WheelTimerFires
    \/ \E y \in TouchYs : onTouchStart(y)
    \/ \E y \in TouchYs : onTouchEnd(y)
    \/ \E key \in Keys : onKeyDown(key)
    \/ \E h \in Handles, dt \in 1..AnimTicks : runAnimation(h, dt)

SpecGesture == InitGesture /\ [][NextGesture]_vars

--------------------------------------------------------------------------
\* The gesture controller with the browser running every animation-frame
\* callback that stays scheduled, and reloads that may bring a forecast of
\* another length (processWeatherDays keeps as many days as the response has)

ReloadDays == { <<0, 0, 0>>, <<0, 0>> }

\* the browser runs a scheduled animation-frame callback
AnimationFrame == \E h \in Handles, dt \in 1..AnimTicks : runAnimation(h, dt)

NextFrames ==
    \/ \E days \in ReloadDays : FetchResolves(days)
    \/ FetchRejects
    \/ LoadStarts
    \/ \E i \in 0..2 : OnDaySelect(i)
    \/ \E deltaY \in WheelDeltas : onWheel(deltaY)
    \/ WheelTimerFires
    \/ \E y \in TouchYs : onTouchStart(y)
    \/ \E y \in TouchYs : onTouchEnd(y)
    \/ \E key \in Keys : onKeyDown(key)
    \/ AnimationFrame

SpecFrames == InitGesture /\ [][NextFrames]_vars /\ WF_vars(AnimationFrame)

--------------------------------------------------------------------------
\* The scene while the controller animates from a sunny day to a rainy one:
\* sunny_to_rainy is served as frame_NNNN.jpg, the user only asks for the
\* next day

ForwardKeys == {"ArrowDown", "PageDown", "Enter"}

InitScene ==
    /\ Init
    /\ DOMAIN server = {MapFolder}
    /\ server[MapFolder].formats = {1}

NextScene ==
    \/ FetchResolves(<<0, 61, 61>>)
    \/ \E key \in ForwardKeys : onKeyDown(key)
    \/ \E h \in Handles, dt \in 1..AnimTicks : runAnimation(h, dt)
    \/ \E i \in 1..MaxCalls : DetectProbeSettles(i)
    \/ \E i \in 1..MaxCalls : CountProbeSettles(i)
    \/ \E i \in 1..MaxCalls : LoadsSettle(i)
    \/ \E i \in 1..MaxCalls : TimerFires(i)

SpecScene == InitScene /\ [][NextScene]_vars

--------------------------------------------------------------------------
\* The weather types of a forecast: the first day has any WMO code, the
\* second is clear or rainy; no frames are served

TypeDays == { <<a, b>> : a \in 0..MaxCode, b \in {0, 61} }

InitTypes == Init /\ server = <<>>

NextTypes ==
    \/ \E days \in TypeDays : FetchResolves(days)
    \/ \E i \in 1..MaxCalls : DetectProbeSettles(i)

SpecTypes == InitTypes /\ [][NextTypes]_vars

--------------------------------------------------------------------------
\* The video layers of the scene for a forecast whose first two days are
\* sunny and whose third is rainy, with the current video loading, becoming
\* playable or failing while the App hands the scene other days and progress
\* values.  Either no frames are served, or sunny_to_rainy is, and was
\* resolved, counted and preloaded on an earlier visit of day 1.

MaxReadyFrames == 2

VideoDays == <<0, 0, 61>>
VideoProgress == {0, 1, 2, ProgressDen \div 2}

InitVideo ==
    /\ weatherDays = VideoDays /\ loading = FALSE /\ error = NULL
    /\ activeDay = 0 /\ activeDayRef = 0 /\ scrollProgress = 0 /\ progressRef = 0
    /\ Unmoved /\ VideoMounted /\ CanvasMounted /\ FirstLoad
    /\ hasTransitionFrames = "false" /\ frameSrc = ""
    /\ \/ /\ server = <<>>
          /\ folderFormats = <<>> /\ folderFrameCounts = <<>> /\ frameCache = {}
       \/ /\ server = [x \in {MapFolder} |-> [formats |-> {1}, count |-> MaxRange]]
          /\ folderFormats = [x \in {MapFolder} |-> FORMAT_CANDIDATES[1]]
          /\ folderFrameCounts = [x \in {MapFolder} |-> MaxRange]
          /\ frameCache = { buildUrl(MapFolder, n, FORMAT_CANDIDATES[1]) : n \in 1..MaxRange }
    /\ calls = <<>>
    /\ fromType = "sunny" /\ toType = "sunny" /\ keyOut = NULL
    /\ prevFromType = "sunny" /\ prevToType = "sunny" /\ prevKeyOut = NULL
    /\ mapOut = NoMapping /\ prevMapOut = NoMapping

\* The App renders the scene for another day or progress: a jump, a backward
\* step or a completed run (the day changes, the progress is 0) or an
\* animation frame (the progress changes)
SceneReceives(day, progress) ==
    /\ ~loading /\ error = NULL
    /\ day \in 0..(Len(weatherDays) - 1)
    /\ <<day, progress>> # <<activeDay, scrollProgress>>
    /\ day # activeDay => progress = 0
    /\ Cardinality({j \in DOMAIN calls : calls[j].op = "check"}) < MaxChecks
    /\ activeDay' = day /\ activeDayRef' = day
    /\ scrollProgress' = progress /\ progressRef' = progress
    /\ UNCHANGED <<weatherDays, loading, error, animVars, inputVars, event>>
    /\ UNCHANGED <<folderFormats, folderFrameCounts, frameCache, server, canvasVars,
                   fetchVars, keyVars>>
    /\ SceneEffects(hasTransitionFrames, calls)
    /\ VideoEffects

\* What only the video elements and their callbacks change
VideoOnly ==
    UNCHANGED <<appVars, sceneVars, loaderVars, server, canvasVars, fetchVars, keyVars,
                mapVars>>

\* the canplay event of the current video: onCanPlay (lines 48-51)
VideoCanPlay ==
    /\ currentVideo.state = "loading"
    /\ readyFrames.outer + readyFrames.inner < MaxReadyFrames
    /\ currentVideo' = [currentVideo EXCEPT !.state = "canplay", !.onCanPlay = FALSE]
    /\ readyFrames' = IF currentVideo.onCanPlay
                          THEN [readyFrames EXCEPT !.outer = @ + 1]
                          ELSE readyFrames
    /\ videoFailed' = FALSE
    /\ UNCHANGED <<videoReady, nextVideoSrc>>
    /\ VideoOnly

\* the error event of the current video, while it loads or after it became
\* playable: onError (line 52)
VideoError ==
    /\ currentVideo.state \in {"loading", "canplay"}
    /\ currentVideo' = [currentVideo EXCEPT !.state = "error", !.onError = FALSE]
    /\ videoReady' = IF currentVideo.onError THEN FALSE ELSE videoReady
    /\ videoFailed' = TRUE
    /\ UNCHANGED <<nextVideoSrc, readyFrames>>
    /\ VideoOnly

\* the outer callback of line 50 runs: it schedules the inner one
ReadyFrameOuter ==
    /\ readyFrames.outer > 0
    /\ readyFrames' = [outer |-> readyFrames.outer - 1, inner |-> readyFrames.inner + 1]
    /\ UNCHANGED <<videoReady, currentVideo, nextVideoSrc, videoFailed>>
    /\ VideoOnly

\* the inner callback of line 50 runs: setVideoReady(true)
ReadyFrameInner ==
    /\ readyFrames.inner > 0
    /\ readyFrames' = [readyFrames EXCEPT !.inner = @ - 1]
    /\ videoReady' = TRUE
    /\ UNCHANGED <<currentVideo, nextVideoSrc, videoFailed>>
    /\ VideoOnly

NextVideo ==
    \/ \E day \in 0..2, progress \in VideoProgress : SceneReceives(day, progress)
    \/ VideoCanPlay
    \/ VideoError
    \/ ReadyFrameOuter
    \/ ReadyFrameInner
    \/ \E i \in 1..MaxCalls : DetectProbeSettles(i)
    \/ \E i \in 1..MaxCalls : TimerFires(i)

SpecVideo == InitVideo /\ [][NextVideo]_vars

--------------------------------------------------------------------------
\* The App and the loader when the image of a served file can fail to load

\* the transition folder of days 0 and 1, served in one or in two naming formats
FlakyServers ==
    { [x \in {MapFolder} |-> [formats |-> F, count |-> 1]] : F \in {{1}, {1, 2}} }

InitFlaky == Init /\ server \in FlakyServers

NextFlaky ==
    \/ Next
    \/ \E i \in 1..MaxCalls : DetectProbeFails(i)

SpecFlaky == InitFlaky /\ [][NextFlaky]_vars

--------------------------------------------------------------------------
\* getFolderFrameCount on a resolved folder whose probes answer in every
\* possible pattern

InitSearch ==
    /\ InitCount
    /\ server = [x \in {MapFolder} |-> [formats |-> {1}, count |-> 1]]

NextSearch ==
    \/ ApiGetFolderFrameCount(MapFolder)
    \/ \E i \in 1..MaxApiCalls, exists \in BOOLEAN : CountProbeSettlesAnyhow(i, exists)

SpecSearch == InitSearch /\ [][NextSearch]_vars

--------------------------------------------------------------------------
\* The App with the earlier video WeatherScene (src/unnamed/part_004 1-155):
\* a forecast whose day 0 has no transition key is shown

LegacyDays == <<0, 0, 61, 0>>

\* no folder is served, or the transition folder of day 1 is, with one frame
LegacyServers ==
    { <<>>, [x \in {MapFolder} |-> [formats |-> {1}, count |-> 1]] }

InitLegacy ==
    /\ weatherDays = LegacyDays /\ loading = FALSE /\ error = NULL
    /\ activeDay = 0 /\ activeDayRef = 0 /\ scrollProgress = 0 /\ progressRef = 0
    /\ Unmoved /\ VideoMounted /\ CanvasMounted /\ FirstLoad
    /\ hasTransitionFrames = "false" /\ frameSrc = ""
    /\ folderFormats = <<>> /\ folderFrameCounts = <<>> /\ frameCache = {}
    /\ calls = <<>>
    /\ server \in LegacyServers
    /\ fromType = "sunny" /\ toType = "sunny" /\ keyOut = NULL
    /\ prevFromType = "sunny" /\ prevToType = "sunny" /\ prevKeyOut = NULL
    /\ mapOut = NoMapping /\ prevMapOut = NoMapping

\* onDaySelect(i) and the day-dot onClick
LegacyDaySelect(i) ==
    /\ ~loading /\ error = NULL
    /\ i \in 0..(Len(weatherDays) - 1)
    /\ Cardinality({j \in DOMAIN calls : calls[j].op = "check"}) < MaxChecks
    /\ Cardinality({j \in DOMAIN calls : calls[j].pc = "count"}) + 2 <= MaxSearches
    /\ activeDayRef' = i
    /\ progressRef' = 0
    /\ activeDay' = i
    /\ scrollProgress' = 0
    /\ event' = Event("jump", 0, i)
    /\ UNCHANGED <<weatherDays, loading, error, animVars, inputVars>>
    /\ UNCHANGED <<folderFormats, folderFrameCounts, frameCache, server, videoVars,
                   canvasVars, fetchVars, keyVars>>
    /\ LegacySceneEffects(hasTransitionFrames, calls)

\* detectFormat: the probe of candidate cand settles
LegacyDetectProbeSettles(i) ==
    /\ i \in DOMAIN calls /\ calls[i].pc = "detect"
    /\ UNCHANGED <<appVars, folderFrameCounts, frameCache, server, videoVars, canvasVars,
                   fetchVars, keyVars>>
    /\ LET c     == calls[i]
           fmt   == FORMAT_CANDIDATES[c.cand]
           found == probeUrl(c.folder, 1, buildUrl(c.folder, 1, fmt))
       IN  IF ~DetectLoopEnds(found, c.cand)
           THEN /\ calls' = [calls EXCEPT ![i] =
                       [c EXCEPT !.cand = c.cand + 1,
                                 !.issued = Append(@, buildUrl(c.folder, 1,
                                                FORMAT_CANDIDATES[c.cand + 1]))]]
                /\ UNCHANGED <<folderFormats, sceneVars, mapVars>>
           ELSE LET ret == IF found THEN fmt ELSE NullFormat
                IN  /\ folderFormats' = MemoizeFormat(folderFormats, c.folder, ret)
                    /\ LET r == LegacyCheckReturn(i, calls, ret, hasTransitionFrames,
                                                  folderFormats', folderFrameCounts,
                                                  frameCache)
                       IN  LegacySceneEffects(r.htf, r.calls)

NextLegacy ==
    \/ \E i \in 0..3 : LegacyDaySelect(i)
    \/ \E i \in 1..MaxCalls : LegacyDetectProbeSettles(i)
    \/ \E i \in 1..MaxCalls : CountProbeSettles(i)
    \/ \E i \in 1..MaxCalls : LoadsSettle(i)
    \/ \E i \in 1..MaxCalls : TimerFires(i)

SpecLegacy == InitLegacy /\ [][NextLegacy]_vars

--------------------------------------------------------------------------
\* The App from its mount, with the location changing while fetches are in
\* flight; no frames are served

InitFetch ==
    /\ weatherDays = <<>> /\ loading = TRUE /\ error = NULL
    /\ activeDay = 0 /\ activeDayRef = 0 /\ scrollProgress = 0 /\ progressRef = 0
    /\ Unmoved /\ VideoMounted /\ CanvasMounted
    /\ location = DEFAULT_LOCATION
    /\ fetches = << Load(DEFAULT_LOCATION) >>
    /\ hasTransitionFrames = "false" /\ frameSrc = ""
    /\ folderFormats = <<>> /\ folderFrameCounts = <<>> /\ frameCache = {}
    /\ calls = <<>>
    /\ server = <<>>
    /\ fromType = "sunny" /\ toType = "sunny" /\ keyOut = NULL
    /\ prevFromType = "sunny" /\ prevToType = "sunny" /\ prevKeyOut = NULL
    /\ mapOut = NoMapping /\ prevMapOut = NoMapping

NextFetch ==
    \/ \E loc \in Locations : onLocationChange(loc)
    \/ onRetry
    \/ \E i \in 1..MaxFetches : LoadResolves(i)
    \/ \E i \in 1..MaxFetches : LoadRejects(i)

SpecFetch == InitFetch /\ [][NextFetch]_vars

--------------------------------------------------------------------------
\* The idle loop of the canvas WeatherScene (src/unnamed/part_004 209-228):
\* the scene folder of the shown day has its format resolved, hasFrames is
\* true, and the frame count is searched in the background (line 190)

IDLE_FOLDER == "sunny"

\* the frame counts of the scene folder: one frame, a few, fewer and more
\* than DEFAULT_FRAME_COUNT
IdleCounts == {1, MaxRange, 237, 1200}

\* frameNum = (frameNum % total) + 1
IdleNext(n, total) == (n % total) + 1

\* drawFrame(folderName, frameIndex), lines 231-236: the Image it makes
drawFrame(folderName, index) ==
    IF getFrameUrl(folderName, index) = NULL
        THEN canvasSrc
        ELSE getFrameUrl(folderName, index)

InitIdle ==
    /\ weatherDays = <<0, 0, 0>> /\ loading = FALSE /\ error = NULL
    /\ activeDay = 0 /\ activeDayRef = 0 /\ scrollProgress = 0 /\ progressRef = 0
    /\ Unmoved /\ VideoMounted /\ FirstLoad
    /\ hasTransitionFrames = "false" /\ frameSrc = ""
    /\ \E n \in IdleCounts :
          server = [x \in {IDLE_FOLDER} |-> [formats |-> {1}, count |-> n]]
    /\ folderFormats = [x \in {IDLE_FOLDER} |-> FORMAT_CANDIDATES[1]]
    /\ folderFrameCounts = <<>> /\ frameCache = {} /\ calls = <<>>
    /\ hasFrames = "true" /\ idleFrame = 1 /\ frameNum = 1
    /\ canvasSrc = drawFrame(currentType, 1)
    /\ fromType = "sunny" /\ toType = "sunny" /\ keyOut = NULL
    /\ prevFromType = "sunny" /\ prevToType = "sunny" /\ prevKeyOut = NULL
    /\ mapOut = NoMapping /\ prevMapOut = NoMapping

\* tick(ts) with ts - last > interval, and the draw effect (246-254) of the
\* render that setIdleFrame causes
IdleTick ==
    /\ hasFrames = "true" /\ ~isTransitioning
    /\ prevMapOut' = mapOut
    /\ mapOut' = [progress |-> ProgressDen,
                  total    |-> CachedTotal(folderFrameCounts, currentType),
                  frame    |-> progressToFrameSync(ProgressDen, currentType)]
    /\ frameNum' = IdleNext(frameNum, progressToFrameSync(ProgressDen, currentType))
    /\ idleFrame' = IdleNext(frameNum, progressToFrameSync(ProgressDen, currentType))
    /\ canvasSrc' = drawFrame(currentType,
                              IdleNext(frameNum,
                                       progressToFrameSync(ProgressDen, currentType)))
    /\ UNCHANGED <<appVars, sceneVars, videoVars, hasFrames, fetchVars, loaderVars,
                   server, keyVars>>

NextIdle ==
    \/ IdleTick
    \/ ApiGetFolderFrameCount(currentType)
    \/ \E i \in 1..MaxApiCalls : CountProbeSettles(i)

SpecIdle == InitIdle /\ [][NextIdle]_vars

--------------------------------------------------------------------------
\* Properties

\* The frame mappings that have been computed: the last two results, and the
\* progressToFrame activation that has returned and not yet been received
Mappings ==
    ({mapOut, prevMapOut} \ {NoMapping})
      \cup { [progress |-> calls[j].progress, total |-> calls[j].total,
              frame |-> calls[j].value] :
                j \in {x \in DOMAIN calls : calls[x].op = "progressToFrame"
                                              /\ calls[x].pc = "done"} }

\* C1: for every progress p in [0,1] and frame count n >= 1, the frame index
\* computed by progressToFrameSync and by progressToFrame is an integer in
\* 1..n, is 1 at p = 0 and is n at p = 1.
C1_FrameIndexInRange ==
    \A m \in Mappings :
        /\ m.total >= 1
        /\ m.frame \in 1..m.total
        /\ (m.progress = 0 => m.frame = 1)
        /\ (m.progress = ProgressDen => m.frame = m.total)

C1_Witness ==
    /\ prevMapOut = [progress |-> 0, total |-> 237, frame |-> 1]
    /\ mapOut = [progress |-> ProgressDen, total |-> 237, frame |-> 237]

\* C2: for a fixed frame count the mapping is monotonic non-decreasing in
\* progress: of two mappings with the same count, the one with the smaller
\* progress has the smaller or equal frame index.
C2_Monotonic ==
    \A m1 \in Mappings, m2 \in Mappings :
        (m1.total = m2.total /\ m1.progress <= m2.progress) => m1.frame <= m2.frame

C2_Witness ==
    /\ prevMapOut # NoMapping /\ mapOut.total = prevMapOut.total
    /\ mapOut.total = 800
    /\ prevMapOut.progress < mapOut.progress
    /\ prevMapOut.frame < mapOut.frame

\* C3: on a folder with a resolved format that serves exactly the frames
\* 1..N, getFolderFrameCount returns N and memoizes N, for every N in
\* 1..MaxServed.
C3_ExactCount ==
    \A j \in DOMAIN calls :
        (calls[j].op = "getFolderFrameCount" /\ calls[j].pc = "done") =>
            /\ calls[j].value = server[calls[j].folder].count
            /\ calls[j].folder \in DOMAIN folderFrameCounts
            /\ folderFrameCounts[calls[j].folder] = server[calls[j].folder].count

C3_Witness ==
    /\ server[MapFolder] = [formats |-> {2}, count |-> 1999]
    /\ Len(calls) = 2
    /\ calls[1].pc = "done" /\ calls[1].searched /\ calls[1].value = 1999
    /\ calls[2].pc = "done" /\ ~calls[2].searched /\ calls[2].value = 1999

\* C9: getTransitionKey(a, a) is null for every weather type a.
C9_SameTypeNoKey == (fromType = toType) => keyOut = NULL

C9_Witness == fromType = "windy" /\ toType = "windy" /\ prevFromType = "foggy"

\* C10: for weather types a # b, getTransitionKey(a, b) is a non-null key,
\* differs from getTransitionKey(b, a), and distinct ordered pairs of distinct
\* types have distinct keys.
C10_KeysDistinct ==
    /\ (fromType # toType) => keyOut # NULL
    /\ ( /\ fromType # toType /\ prevFromType # prevToType
         /\ <<fromType, toType>> # <<prevFromType, prevToType>> )
            => keyOut # prevKeyOut

C10_Witness ==
    /\ fromType = "snowy" /\ toType = "sunny"
    /\ prevFromType = "sunny" /\ prevToType = "snowy"
    /\ keyOut = "snowy_to_sunny" /\ prevKeyOut = "sunny_to_snowy"

\* The frame-1 URL of candidate k in a folder, and whether it is served
CandidateUrl(folderName, k) == buildUrl(folderName, 1, FORMAT_CANDIDATES[k])
CandidateServed(folderName, k) == FileExists(folderName, 1, CandidateUrl(folderName, k))
NoFirstFrame(folderName) ==
    \A k \in 1..Len(FORMAT_CANDIDATES) : ~CandidateServed(folderName, k)
FirstMatch(folderName) ==
    IF NoFirstFrame(folderName) THEN NullFormat
    ELSE LET k == CHOOSE x \in 1..Len(FORMAT_CANDIDATES) :
                    /\ CandidateServed(folderName, x)
                    /\ \A y \in 1..(x - 1) : ~CandidateServed(folderName, y)
         IN  FORMAT_CANDIDATES[k]
Checks == { j \in DOMAIN calls : calls[j].op = "check" }
Range(seq) == { seq[k] : k \in DOMAIN seq }

\* C4: once a check of a folder has returned, a later check of the same
\* folder returns the same format and the same answer without any probe.
C4_ResolutionIdempotent ==
    \A j \in Checks : \A i \in calls[j].after :
        /\ calls[j].pc = "done"
        /\ calls[j].issued = <<>>
        /\ calls[j].fmt = calls[i].fmt
        /\ calls[j].exists = calls[i].exists

C4_Witness ==
    \E j \in Checks : \E i \in calls[j].after :
        /\ calls[i].issued # <<>>
        /\ calls[j].fmt = FORMAT_CANDIDATES[2]

\* C5: in a folder where no candidate has a first frame, a check answers
\* false, the first one after probing every candidate once and memoizing
\* null, and every check started after one has returned without any probe.
C5_MissingFolder ==
    \A j \in Checks :
        NoFirstFrame(calls[j].folder) =>
            /\ calls[j].pc = "done" =>
                  /\ ~calls[j].exists
                  /\ calls[j].folder \in DOMAIN folderFormats
                  /\ folderFormats[calls[j].folder] = NullFormat
            /\ (calls[j].pc = "done" /\ calls[j].after = {}) =>
                  calls[j].issued = [k \in 1..Len(FORMAT_CANDIDATES) |->
                                        CandidateUrl(calls[j].folder, k)]
            /\ calls[j].after # {} =>
                  (calls[j].pc = "done" /\ calls[j].issued = <<>>)

C5_Witness ==
    \E j \in Checks : \E i \in calls[j].after :
        /\ NoFirstFrame(calls[j].folder)
        /\ Len(calls[i].issued) = Len(FORMAT_CANDIDATES)
        /\ ~calls[i].exists /\ ~calls[j].exists
        /\ hasTransitionFrames = "false"

\* C6: detectFormat probes the candidates in list order, one at a time, never
\* probes a candidate after one that is served, and returns and memoizes the
\* first candidate whose frame 1 is served.
C6_FirstMatchWins ==
    \A j \in Checks :
        LET c == calls[j]
        IN  /\ \A k \in 1..Len(c.issued) : c.issued[k] = CandidateUrl(c.folder, k)
            /\ \A k \in 1..(Len(c.issued) - 1) : ~CandidateServed(c.folder, k)
            /\ c.pc = "detect" => Len(c.issued) = c.cand
            /\ c.pc = "done" =>
                  /\ c.fmt = FirstMatch(c.folder)
                  /\ c.folder \in DOMAIN folderFormats
                  /\ folderFormats[c.folder] = c.fmt

C6_Witness ==
    \E j \in Checks :
        /\ calls[j].pc = "done" /\ Len(calls[j].issued) = 2
        /\ calls[j].fmt = FORMAT_CANDIDATES[2]
        /\ server[calls[j].folder].formats = {2, 3}

\* C7: a call of getFolderFrameCount made while an earlier one for the same
\* folder is in flight starts no second search: at most one count search per
\* folder is in flight.
C7_SearchShared ==
    \A i \in DOMAIN calls, j \in DOMAIN calls :
        (i # j /\ calls[i].pc = "count" /\ calls[j].pc = "count")
            => calls[i].folder # calls[j].folder

\* C8: no candidate URL of a folder is probed twice, whatever the
\* interleaving of the checks of that folder.
C8_ProbedOnce ==
    \A i \in Checks, j \in Checks :
        (i # j /\ calls[i].folder = calls[j].folder)
            => Range(calls[i].issued) \cap Range(calls[j].issued) = {}

\* The wheel, touch-end and key-down handlers
TriggerKinds == {"wheel", "touchend", "keydown"}
Run == <<animRef, animStartRef, animFromRef, animTargetRef>>

\* C11: a backward trigger at a day i > 0 leaves the controller on day
\* i - 1 at progress 0 in that same step, with no animation run started.
C11_BackwardInstant ==
    (event.kind \in TriggerKinds /\ event.dir < 0 /\ event.pre.day > 0) =>
        /\ activeDay = event.pre.day - 1 /\ activeDayRef = event.pre.day - 1
        /\ scrollProgress = 0 /\ progressRef = 0
        /\ ~isAnimatingRef /\ rafPending = {}
        /\ Run = event.pre.run

C11_Witness ==
    /\ event.kind = "wheel" /\ event.dir < 0
    /\ event.pre.day = 2 /\ activeDay = 1

\* C12: a forward trigger on the last day and a backward trigger on day 0
\* change neither the day, the progress, the animating flag nor the
\* scheduled callback.
C12_BoundaryNoOp ==
    (/\ event.kind \in TriggerKinds
     /\ \/ event.dir > 0 /\ event.pre.day = event.pre.total - 1
        \/ event.dir < 0 /\ event.pre.day = 0) =>
        /\ activeDay = event.pre.activeDay /\ activeDayRef = event.pre.day
        /\ scrollProgress = event.pre.scrollProgress
        /\ progressRef = event.pre.progress
        /\ isAnimatingRef = event.pre.animating
        /\ rafPending = event.pre.pending
        /\ Run = event.pre.run

C12_Witness ==
    /\ event.kind = "keydown" /\ event.dir > 0
    /\ event.pre.day = 2 /\ event.pre.total = 3

C14_ProgressMonotone ==
    (event.pre.animating /\ isAnimatingRef) =>
        scrollProgress >= event.pre.scrollProgress

\* C15: activeDay is a day of the forecast.
C15_ActiveDayInRange ==
    Len(weatherDays) > 0 => activeDay \in 0..(Len(weatherDays) - 1)

\* C19: after a direct jump to day i, and until the next wheel, touch, key
\* or reload, the controller stays on day i at progress 0.
C19_JumpHolds ==
    event.jumped # -1 => (activeDay = event.jumped /\ scrollProgress = 0)

\* C20: a wheel, touch-end or key-down event that finds the controller
\* animating changes neither the day, the run nor the wheel accumulator and
\* does not call triggerTransition.
C20_IgnoredWhileAnimating ==
    (event.kind \in TriggerKinds /\ event.pre.animating) =>
        /\ event.dir = 0
        /\ activeDay = event.pre.activeDay /\ activeDayRef = event.pre.day
        /\ Run = event.pre.run
        /\ rafPending = event.pre.pending
        /\ wheelAccum = event.pre.wheelAccum

C20_Witness ==
    /\ event.kind = "wheel" /\ event.pre.animating
    /\ wheelAccum = 20 /\ rafPending # {}

\* The frames of a chunk <<start, end>>
ChunkFrames(ch) == ch[1]..ch[2]

\* C18: the chunks preloadTransition asks preloadFrameRange for start at
\* frame 1, follow one another without gap or overlap, hold at most
\* chunkSize frames each and, once it has returned, cover exactly 1..total,
\* total being the count getFolderFrameCount returned for the folder.
C18_ChunksPartition ==
    \A j \in DOMAIN calls :
        (calls[j].op = "preloadTransition" /\ calls[j].pc \in {"load", "yield", "done"}) =>
            LET c  == calls[j]
                ch == c.chunks
            IN  /\ c.folder \in DOMAIN folderFrameCounts
                /\ c.total = folderFrameCounts[c.folder]
                /\ \A k \in DOMAIN ch :
                      /\ ch[k][1] = (IF k = 1 THEN 1 ELSE ch[k - 1][2] + 1)
                      /\ ch[k][1] <= ch[k][2]
                      /\ ch[k][2] - ch[k][1] + 1 <= chunkSize
                      /\ ChunkFrames(ch[k]) \subseteq 1..c.total
                      /\ (k < Len(ch) => ch[k][2] - ch[k][1] + 1 = chunkSize)
                /\ c.pc = "done" => (ch # <<>> /\ ch[Len(ch)][2] = c.total)
                /\ c.requested = UNION { ChunkFrames(ch[k]) : k \in DOMAIN ch }

C18_Witness ==
    \E j \in DOMAIN calls :
        /\ calls[j].op = "preloadTransition" /\ calls[j].pc = "done"
        /\ calls[j].total = 120
        /\ calls[j].chunks = << <<1, 50>>, <<51, 100>>, <<101, 120>> >>

\* C17: a preloadFrameRange call is never rejected and has returned exactly
\* when none of its loads is pending; once the latest call has returned, every
\* frame it loaded is in the cache and every frame whose load failed is not.
C17_BatchSettles ==
    \A j \in DOMAIN calls :
        calls[j].op = "preloadFrameRange" =>
            LET c == calls[j]
            IN  /\ c.pc # "rejected"
                /\ (c.pc = "done") <=> (c.loads = {})
                /\ c.loaded \subseteq frameCache
                /\ c.loaded \cap c.failed = {}
                /\ (j = Len(calls) /\ c.pc = "done") => c.failed \cap frameCache = {}
                /\ \A i \in c.requested :
                      FrameUrlIn(folderFormats, c.folder, i)
                          \in (c.loaded \cup c.failed \cup c.loads \cup frameCache)

C17_Witness ==
    \E j \in DOMAIN calls :
        /\ calls[j].op = "preloadFrameRange" /\ calls[j].pc = "done"
        /\ j = 2 /\ Cardinality(calls[j].loaded) = 1 /\ Cardinality(calls[j].failed) = 2

\* C16: while hasTransitionFrames is true and the App is transitioning on a
\* folder resolved to frame_NNNN.jpg that holds N frames, the frame image
\* shows frame clamp(round(p * N), 1, N) of that folder.
C16_FrameOfActualCount ==
    (/\ hasTransitionFrames = "true" /\ isTransitioning
     /\ transitionKey \in DOMAIN server
     /\ transitionKey \in DOMAIN folderFormats
     /\ folderFormats[transitionKey] = FORMAT_CANDIDATES[1]) =>
        frameSrc = buildUrl(transitionKey,
                            frameIndex(scrollProgress, server[transitionKey].count),
                            FORMAT_CANDIDATES[1])

\* C21: an animation frame of a forward run leaves the day alone until the
\* run completes; the completing frame leaves the controller idle, with no
\* callback scheduled, at progress 0 on the day after the one the run was
\* triggered on.
C21_RunAdvancesOnce ==
    (event.kind = "frame" /\ event.pre.animating) =>
        IF isAnimatingRef
        THEN activeDay = event.pre.activeDay
        ELSE /\ activeDay = runDay + 1 /\ activeDayRef = runDay + 1
             /\ scrollProgress = 0 /\ progressRef = 0
             /\ rafPending = {} /\ animRef = 0

\* C24: each of the six weather types is what getWeatherType returns for
\* some WMO code in 0..MaxCode, so that a loaded forecast can show it.
C24_AllTypesOccur ==
    weatherDays # <<>> =>
        \A t \in WEATHER_TYPES : \E code \in 0..MaxCode : getWeatherType(code) = t

--------------------------------------------------------------------------
\* C25: getFolderFrameCount on a folder whose format is not resolved (never
\* looked for, or memoized as null) has returned DEFAULT_FRAME_COUNT without
\* issuing a probe or starting a search, the count map has no entry for the
\* folder, and the step that makes the call leaves the count map as it was.
C25_UnresolvedDefault ==
    /\ [](\A i \in DOMAIN calls :
            (calls[i].op = "getFolderFrameCount"
                /\ ~HasFormat(folderFormats, calls[i].folder)) =>
                    /\ calls[i].pc = "done"
                    /\ calls[i].value = DEFAULT_FRAME_COUNT
                    /\ calls[i].issued = <<>> /\ ~calls[i].searched
                    /\ calls[i].folder \notin DOMAIN folderFrameCounts)
    /\ [][(Len(calls') > Len(calls)
            /\ ~HasFormat(folderFormats, calls'[Len(calls')].folder)) =>
                folderFrameCounts' = folderFrameCounts]_vars

\* both kinds of unresolved folder were asked for their count: one never
\* looked for, then one memoized as null
C25_Witness ==
    /\ Len(calls) = 2
    /\ calls[1].folder = "sunny_to_foggy" /\ calls[1].pc = "done"
    /\ calls[2].folder = MapFolder /\ calls[2].pc = "done"
    /\ MapFolder \in DOMAIN folderFormats /\ ~HasFormat(folderFormats, MapFolder)
    /\ calls[2].value = DEFAULT_FRAME_COUNT
--------------------------------------------------------------------------
\* C28: a progressToFrame call that has returned, in a state where its
\* folder's count is memoized or the folder is unresolved, returned the index
\* progressToFrameSync gives for the same progress and folder.
C28_MappersAgree ==
    \A i \in DOMAIN calls :
        (calls[i].op = "progressToFrame" /\ calls[i].pc = "done"
            /\ (calls[i].folder \in DOMAIN folderFrameCounts
                    \/ ~HasFormat(folderFormats, calls[i].folder))) =>
            calls[i].value = progressToFrameSync(calls[i].progress, calls[i].folder)

\* progressToFrame searched a folder of 237 frames and returned an index
\* strictly inside 1..237, the one progressToFrameSync now gives
C28_Witness ==
    /\ Len(calls) = 1 /\ calls[1].op = "progressToFrame" /\ calls[1].pc = "done"
    /\ calls[1].searched /\ calls[1].total = 237
    /\ folderFrameCounts[MapFolder] = 237
    /\ calls[1].value > 1 /\ calls[1].value < 237
    /\ calls[1].value = progressToFrameSync(calls[1].progress, MapFolder)
--------------------------------------------------------------------------
\* C27: an activation that has issued a frame-index probe of
\* getFolderFrameCount works on a folder whose format is memoized, and a
\* preloadTransition that has asked for image loads holds the count
\* getFolderFrameCount returned for its folder, which is memoized.
C27_ResolveCountLoad ==
    \A i \in DOMAIN calls :
        /\ (calls[i].pc = "count" \/ calls[i].searched) =>
                /\ HasFormat(folderFormats, calls[i].folder)
                /\ calls[i].fmt = folderFormats[calls[i].folder]
        /\ (calls[i].op = "preloadTransition"
                /\ (calls[i].chunks # <<>> \/ calls[i].loads # {})) =>
                /\ calls[i].folder \in DOMAIN folderFrameCounts
                /\ calls[i].total = folderFrameCounts[calls[i].folder]

\* a preloadTransition has searched the count of its folder and its first
\* chunk of image loads is in flight
C27_Witness ==
    \E i \in DOMAIN calls :
        /\ calls[i].op = "preloadTransition" /\ calls[i].pc = "load"
        /\ calls[i].searched /\ Len(calls[i].issued) > 1
        /\ calls[i].loads # {} /\ Len(calls[i].chunks) = 1
        /\ calls[i].total = folderFrameCounts[calls[i].folder]
--------------------------------------------------------------------------
\* The URLs of the frames of a chunk of activation c
ChunkUrls(c, ch) == { FrameUrlIn(folderFormats, c.folder, n) : n \in ChunkFrames(ch) }

\* C30: the image loads a preloadTransition has in flight are loads of its
\* latest chunk, at most chunkSize of them; and the step in which it asks for
\* a chunk after its first starts from a state where none of its loads is
\* pending and it awaits the timer, that step being the timer firing.
C30_OneChunkInFlight ==
    /\ [](\A i \in DOMAIN calls :
            (calls[i].op = "preloadTransition" /\ calls[i].loads # {}) =>
                /\ calls[i].pc = "load"
                /\ Cardinality(calls[i].loads) <= chunkSize
                /\ calls[i].loads \subseteq
                      ChunkUrls(calls[i], calls[i].chunks[Len(calls[i].chunks)]))
    /\ [][\A i \in DOMAIN calls :
            (calls[i].op = "preloadTransition" /\ calls[i].chunks # <<>>
                /\ Len(calls'[i].chunks) > Len(calls[i].chunks)) =>
                /\ calls[i].loads = {} /\ calls[i].pc = "yield"
                /\ Len(calls'[i].chunks) = Len(calls[i].chunks) + 1]_vars

\* the second chunk of a folder of 120 frames is in flight: fifty loads
C30_Witness ==
    \E i \in DOMAIN calls :
        /\ calls[i].op = "preloadTransition" /\ calls[i].pc = "load"
        /\ calls[i].chunks = << <<1, 50>>, <<51, 100>> >>
        /\ Cardinality(calls[i].loads) = chunkSize
--------------------------------------------------------------------------
\* C29: every cached URL is one whose image load succeeded (a load of a frame
\* the folder serves), getCachedFrame returns an image only for such a frame,
\* and no step removes a URL from the cache.
C29_CacheAppendOnly ==
    /\ [](/\ frameCache \subseteq UNION { calls[i].loaded : i \in DOMAIN calls }
          /\ \A n \in 1..MaxRange :
                getCachedFrame(MapFolder, n) # NULL =>
                    /\ FileExists(MapFolder, n, getCachedFrame(MapFolder, n))
                    /\ \E i \in DOMAIN calls :
                          getCachedFrame(MapFolder, n) \in calls[i].loaded)
    /\ [][frameCache \subseteq frameCache']_vars

\* a frame was cached by one call, and a later call whose load of another
\* frame failed left the cache as it was
C29_Witness ==
    /\ Len(calls) = 2 /\ calls[2].pc = "done"
    /\ calls[1].loaded # {} /\ calls[2].failed # {} /\ calls[2].loaded = {}
    /\ frameCache = calls[1].loaded
    /\ getCachedFrame(MapFolder, 1) # NULL
--------------------------------------------------------------------------
\* C26: with every scheduled animation-frame callback eventually run, a state
\* in which the controller animates (isAnimatingRef true) is followed by one
\* in which it does not and accepts input again.
C26_AnimatingEnds == isAnimatingRef ~> ~isAnimatingRef
--------------------------------------------------------------------------
\* A transition between two days of one weather type is shown
SameTypeTransition == isTransitioning /\ currentType = nextType

\* What holds of a same-type transition whatever the current video's state:
\* the current layer is not moved, the frame layer is transparent, the check
\* effect has set hasTransitionFrames to false and left no check running, and
\* the next video has the source of the current one, the current type's asset
SameTypeStill ==
    /\ Layers.currentTransform = 0
    /\ Layers.frameOpacity = 0
    /\ hasTransitionFrames = "false"
    /\ \A j \in DOMAIN calls : calls[j].op = "check" => calls[j].cancelled
    /\ nextVideoSrc = VideoUrl(currentType)
    /\ nextVideoSrc = currentVideo.src

C23_ErrorKeepsFallback ==
    videoFailed =>
        /\ fallbackOpacity = OpacityDen
        /\ currentLayerOpacity = 0
        /\ error = NULL
--------------------------------------------------------------------------
\* A frame-sequence transition is shown
FrameTransition == isTransitioning /\ hasTransitionFrames = "true"

\* min(1, progress / 0.12) over OpacityDen
FadeOf(p) == IF 25 * p >= 3 * ProgressDen THEN OpacityDen ELSE 100 * p

\* C31 as stated: during a frame-sequence transition the frame layer's
\* opacity is min(1, progress/0.12), the current layer's is 1 minus that, so
\* they sum to 1; the frame layer is opaque from progress 0.12 on and
\* neither layer is translated.
C31_OpacitiesSumToOne ==
    FrameTransition =>
        /\ Layers.frameOpacity = FadeOf(sceneProgress)
        /\ currentLayerOpacity = OpacityDen - FadeOf(sceneProgress)
        /\ currentLayerOpacity + Layers.frameOpacity = OpacityDen
        /\ Layers.currentTransform = 0

\* C31, amended: during a frame-sequence transition the frame layer's opacity
\* is min(1, progress/0.12) and the current layer is not translated; once
\* videoReady is true the current layer's opacity is 1 minus the frame
\* layer's, and until then it is 0.
C31_CrossFade ==
    FrameTransition =>
        /\ Layers.frameOpacity = FadeOf(sceneProgress)
        /\ Layers.currentTransform = 0
        /\ Layers.nextTransform = 100 * EaseDen
        /\ IF videoReady
           THEN /\ currentLayerOpacity = OpacityDen - FadeOf(sceneProgress)
                /\ currentLayerOpacity + Layers.frameOpacity = OpacityDen
           ELSE currentLayerOpacity = 0

\* on day 1 the frames of sunny_to_rainy fade in over the ready video: at
\* progress 1/16 the frame layer is at 100/192 and the current layer at 92/192
C31_Witness ==
    /\ FrameTransition /\ videoReady /\ activeDay = 1 /\ scrollProgress = 1
    /\ Layers.frameOpacity = 100 /\ currentLayerOpacity = OpacityDen - 100
--------------------------------------------------------------------------
C33_IdleAdvancesByOne ==
    [][IdleTick =>
          /\ frameNum' \in 1..mapOut'.total
          /\ frameNum' = IF frameNum = mapOut'.total THEN 1 ELSE frameNum + 1]_vars

\* C34: a memoized format result of a folder, a format or unresolved, is
\* never changed by a later step: no resolution that completes later, no
\* failed probe and no other operation overwrites it.  (Violated.)
C34_FormatEntryStable ==
    [][\A f \in DOMAIN folderFormats :
          f \in DOMAIN folderFormats' /\ folderFormats'[f] = folderFormats[f]]_vars

\* C39: whatever the probes answer, a count search has issued at most 11
\* probes, each one only in the step that received the answer to the one
\* before it, and when it has returned the folder has a memoized count in
\* 1..2000, which is the value returned.
C39_SearchBounded ==
    /\ [](\A i \in DOMAIN calls :
            /\ Len(calls[i].issued) <= 11
            /\ calls[i].pc = "done"
                  => /\ calls[i].folder \in DOMAIN folderFrameCounts
                     /\ folderFrameCounts[calls[i].folder] \in 1..SEARCH_HI
                     /\ calls[i].value = folderFrameCounts[calls[i].folder])
    /\ [][\A i \in DOMAIN calls' :
            IF i \in DOMAIN calls
                THEN \/ calls'[i].issued = calls[i].issued
                     \/ /\ calls[i].pc = "count"
                        /\ Len(calls'[i].issued) = Len(calls[i].issued) + 1
                ELSE Len(calls'[i].issued) <= 1]_vars

\* a search has returned after 11 probes with a count that is not the
\* number of frames served
C39_Witness ==
    \E i \in DOMAIN calls :
        /\ calls[i].pc = "done" /\ Len(calls[i].issued) = 11
        /\ folderFrameCounts[calls[i].folder] # server[calls[i].folder].count

\* the check of the current transitionKey that has not resolved yet
Checking ==
    \E j \in DOMAIN calls :
        /\ calls[j].op = "check" /\ calls[j].folder = transitionKey
        /\ ~calls[j].cancelled /\ calls[j].pc = "detect"

\* C35, for src/src/components/WeatherScene.jsx: while the scene is shown,
\* hasTransitionFrames is about the current
\* transitionKey: false when there is none, null exactly while the check of
\* the current key has not resolved, and otherwise the answer for that key's
\* folder; and a check that was superseded before it resolved changes neither
\* the flag nor the activations of the loader when it resolves.
C35_FlagIsCurrent ==
    /\ [](error = NULL =>
            /\ transitionKey = NULL => hasTransitionFrames = "false"
            /\ transitionKey # NULL =>
                  /\ hasTransitionFrames = "null" <=> Checking
                  /\ hasTransitionFrames = "true"
                        => HasFormat(folderFormats, transitionKey)
                  /\ hasTransitionFrames = "false"
                        => /\ transitionKey \in DOMAIN folderFormats
                           /\ folderFormats[transitionKey] = NullFormat)
    /\ [][\A i \in 1..MaxCalls :
            (DetectProbeSettles(i) /\ calls[i].cancelled)
                => /\ hasTransitionFrames' = hasTransitionFrames
                   /\ Len(calls') = Len(calls)]_vars

\* a superseded check has found the frames of its folder while the check of
\* the current key is still unresolved
C35_Witness ==
    /\ Checking /\ hasTransitionFrames = "null"
    /\ \E j \in DOMAIN calls :
          /\ calls[j].op = "check" /\ calls[j].cancelled
          /\ calls[j].pc = "done" /\ calls[j].exists
          /\ calls[j].folder # transitionKey

\* C35, for the earlier video WeatherScene: the flag is true only when the
\* current transitionKey has frames, so no check of a superseded key has set
\* it.  (Violated.)
C35_FlagOfCurrentKey ==
    hasTransitionFrames = "true"
        => transitionKey # NULL /\ HasFormat(folderFormats, transitionKey)

C37_RetryReloads ==
    event.kind = "retry" => error = NULL /\ loading

\* the activation of load() for the most recently selected location
Latest == fetches[Len(fetches)]

\* C38: once every fetch has settled, the loading flag is false and the
\* forecast and the error are those of the fetch for the most recently
\* selected location; and loading is true while that fetch is pending.
\* (Violated.)
C38_LatestFetchWins ==
    /\ (\A i \in DOMAIN fetches : fetches[i].pc # "await")
          => /\ ~loading
             /\ Latest.pc = "ok"
                   => error = NULL /\ weatherDays = Forecast(Latest.loc)
             /\ Latest.pc = "failed" => error # NULL
    /\ Latest.pc = "await" => loading

====
